---- MODULE Spec2Model ----
(***************************************************************************)
(* A model of the asynchronous IPC framework (libc/generic/async.c) and of *)
(* the UDP association table (uspace/srv/net/udp/assoc.c).                 *)
(*                                                                         *)
(* One kernel thread hosts the manager pseudo-thread and the user          *)
(* pseudo-threads.  Pseudo-threads are cooperative: control changes hands  *)
(* only in psthread_schedule_next_adv and while the manager sleeps in      *)
(* ipc_wait_cycle, so one action of the model is the code a pseudo-thread  *)
(* runs between two such points.                                           *)
(***************************************************************************)
EXTENDS Integers, Sequences, FiniteSets, TLC

(* ------------------------------------------------------------------ *)
(* Bounds of the model                                                 *)
(* ------------------------------------------------------------------ *)
MaxCalls == 3      \* incoming calls the kernel delivers
MaxConns == 2      \* connection_t structures ever allocated
MaxMsgs == 2       \* amsg_t structures ever allocated
MaxTicks == 1      \* clock ticks
MaxFwd == 1        \* requests the connection handlers send
MaxAssocs == 2     \* udp_assoc_t structures ever allocated
MaxServed == 1     \* associations of the service whose users block in recv
MaxThreads == 3    \* threads the thread test creates
MaxFibrils == 2    \* fibrils of the UDP service
MaxQueued == 2     \* messages handed to udp_assoc_queue_msg

(* ------------------------------------------------------------------ *)
(* Program constants                                                   *)
(* ------------------------------------------------------------------ *)
USEC_PER_SEC == 1000000
CONN_HASH_TABLE_CHAINS == 32

\* The clock advances in steps of half a second.
TickUsec == USEC_PER_SEC \div 2

\* Pseudo-thread identifiers: the manager, the main pseudo-thread, and one
\* pseudo-thread per connection (its identifier is the connection's index).
MANAGER == -1
MainFiber == 0
ConnIds == 1..MaxConns
UserFibers == {MainFiber} \cup ConnIds

PhoneHashes == {16, 528}
Methods == {"IPC_M_INTERRUPT", "IPC_M_CONNECT_ME_TO", "OTHER"}
Timeouts == {0, TickUsec}

VARIABLES
    now,              \* clock, in ticks
    async_futex,      \* counter of the async futex
    halted,           \* [kind, site]: "no", or the thread is stuck / has crashed
    running,          \* the pseudo-thread that owns the processor
    mgr_pc,           \* position of the manager in async_manager
    mgr_wait,         \* the timeout the manager gave ipc_wait_cycle
    ready,            \* psthread ready list
    fpc,              \* position of every user pseudo-thread
    fwait,            \* the wait a parked pseudo-thread is in: message, timeout
    conn,             \* connection_t structures
    conn_hash_table,  \* linked connections, in insertion order
    timeout_list,     \* linked amsg_t, head first
    calls,            \* every call the kernel delivered, by callid
    answers,          \* ipc_answer_fast history, by callid
    routed,           \* per connection: callids appended by route_call
    delivered,        \* per connection: callids returned by async_get_call
    msgs,             \* amsg_t structures, by id
    ret,              \* what the wait that returned last gave its caller
    observed,         \* every (message, answer arg1) pair a wait has returned
    override,         \* the program overrides the weak client_connection
    assoc,            \* udp_assoc_t structures
    assoc_list,       \* linked associations, in list order
    apc,              \* position of every fibril of the UDP service
    aarg,             \* the association a fibril operates on
    ares,             \* the value the fibril's last udp_assoc_recv returned
    cv_waiters,       \* per association: fibrils asleep on rcv_queue_cv
    uaf,              \* accesses to a freed association, as they happen
    recvd,            \* per fibril: *msg and *remote as udp_assoc_recv left them
    nmsgs,            \* udp_msg_t structures handed to udp_assoc_queue_msg
    deleted_msgs,     \* the messages udp_assoc_free called udp_msg_delete on
    sendret,          \* what the last udp_assoc_send did and returned
    match,            \* the arguments and the result of a udp_ep_match call
    threads,          \* kernel threads of the thread test, by thread id
    tret,             \* per thread: what its last thread_join returned
    done_count,       \* thread test: done_count
    nested_join_result \* thread test: nested_join_result

asyncVars == <<now, async_futex, halted, running, mgr_pc, mgr_wait, ready,
               fpc, fwait, conn, conn_hash_table, timeout_list, calls,
               answers, routed, delivered, msgs, ret, observed, override>>
recvVars == <<recvd, nmsgs, deleted_msgs>>
assocVars == <<assoc, assoc_list, apc, aarg, ares, cv_waiters, uaf, recvVars>>
sendVars == <<sendret, match>>
threadVars == <<threads, tret, done_count, nested_join_result>>
vars == <<asyncVars, assocVars, sendVars, threadVars>>

\* What a step of the asynchronous framework, and what a step on the
\* association table, leaves alone.
besideAsync == <<assocVars, sendVars, threadVars>>
besideQueue == <<asyncVars, sendVars, threadVars>>
besideAssoc == <<besideQueue, recvVars>>

(* ------------------------------------------------------------------ *)
(* Sequences                                                           *)
(* ------------------------------------------------------------------ *)
Range(s) == {s[i] : i \in 1..Len(s)}

IsPrefix(s, t) == Len(s) <= Len(t) /\ SubSeq(t, 1, Len(s)) = s

\* list_remove of the (single) occurrence of x
RemoveFirst(s, x) ==
    LET idx == {i \in 1..Len(s) : s[i] = x}
    IN  IF idx = {} THEN s
        ELSE LET k == CHOOSE i \in idx : \A j \in idx : i <= j
             IN  SubSeq(s, 1, k - 1) \o SubSeq(s, k + 1, Len(s))

Count(s, x) == Cardinality({i \in 1..Len(s) : s[i] = x})

(* ------------------------------------------------------------------ *)
(* struct timeval                                                      *)
(* ------------------------------------------------------------------ *)
NowUsec == now * TickUsec

gettimeofday ==
    [tv_sec |-> NowUsec \div USEC_PER_SEC, tv_usec |-> NowUsec % USEC_PER_SEC]

tv_add(tv, usecs) ==
    LET sec == tv.tv_sec + (usecs \div 1000000)
        usec == tv.tv_usec + (usecs % 1000000)
    IN  IF usec > 1000000
        THEN [tv_sec |-> sec + 1, tv_usec |-> usec - 1000000]
        ELSE [tv_sec |-> sec, tv_usec |-> usec]

tv_sub(tv1, tv2) ==
    (tv1.tv_usec - tv2.tv_usec) + ((tv1.tv_sec - tv2.tv_sec) * 1000000)

tv_gt(tv1, tv2) ==
    \/ tv1.tv_sec > tv2.tv_sec
    \/ tv1.tv_sec = tv2.tv_sec /\ tv1.tv_usec > tv2.tv_usec

(* ------------------------------------------------------------------ *)
(* Connection hash table                                               *)
(* ------------------------------------------------------------------ *)
conn_hash(key) == (key \div 16) % CONN_HASH_TABLE_CHAINS

conn_compare(key, c) == key = conn[c].in_phone_hash

\* First item of the key's chain that compares equal; 0 when there is none.
hash_table_find(key) ==
    LET chain == SelectSeq(conn_hash_table,
                     LAMBDA c : conn_hash(conn[c].in_phone_hash) = conn_hash(key))
        hits == SelectSeq(chain, LAMBDA c : conn_compare(key, c))
    IN  IF hits = <<>> THEN 0 ELSE Head(hits)

NoConn == [state |-> "none", in_phone_hash |-> 0, msg_queue |-> <<>>,
           active |-> FALSE, callid |-> 0]

NoWait == [timed |-> FALSE, usec |-> 0, start |-> 0]

\* The arguments of the wait a pseudo-thread is parked in; none.
NoArgs == [m |-> 0, timeout |-> 0]

NotHalted == [kind |-> "no", site |-> ""]

Halt(kind, site) == halted' = [kind |-> kind, site |-> site]

NConns == Cardinality({c \in ConnIds : conn[c].state # "none"})

Live == halted.kind = "no"

\* What a read or write of freed memory may do: go unnoticed, or crash.
UafOutcomes(freed) == IF freed THEN {"intact", "crash"} ELSE {"intact"}

NoFiber == MANAGER - 1

\* Nothing has returned since the caller's last call.
NoRet == [m |-> 0, kind |-> "none", rc |-> "none", retval |-> "none",
          dataptr |-> FALSE, data |-> 0, parked |-> FALSE, answer |-> "none",
          timedout |-> FALSE]

(* ------------------------------------------------------------------ *)
(* Initial state                                                       *)
(* ------------------------------------------------------------------ *)
\* server: main() calls async_manager and is the manager; otherwise main() is
\* a client and the manager is created the first time main() parks.
AsyncInit(server) ==
    /\ now = 0
    /\ async_futex = 1
    /\ halted = NotHalted
    /\ running = IF server THEN MANAGER ELSE MainFiber
    /\ mgr_pc = IF server THEN "loop" ELSE "switched"
    /\ fpc = [f \in UserFibers |->
                 IF f = MainFiber /\ ~server THEN "run" ELSE "none"]
    /\ mgr_wait = NoWait
    /\ ready = <<>>
    /\ fwait = [f \in UserFibers |-> NoArgs]
    /\ conn = [c \in ConnIds |-> NoConn]
    /\ conn_hash_table = <<>>
    /\ timeout_list = <<>>
    /\ calls = <<>>
    /\ answers = <<>>
    /\ routed = [c \in ConnIds |-> <<>>]
    /\ delivered = [c \in ConnIds |-> <<>>]
    /\ msgs = <<>>
    /\ ret = NoRet
    /\ observed = {}
    /\ override \in BOOLEAN

(* ------------------------------------------------------------------ *)
(* Manager: expiry sweep, reply callback, call dispatch                *)
(* ------------------------------------------------------------------ *)
\* A sweep that takes every entry of the list, expired or not.
ExpiredAll(list, tv) == Len(list)

\* A sweep that stops after the first entry of the list, expired or not.
ExpiredFirst(list, tv) == IF list = <<>> THEN 0 ELSE 1

\* Number of leading entries of the timeout list that are not later than tv.
RECURSIVE ExpiredCount(_, _)
ExpiredCount(list, tv) ==
    IF list = <<>> \/ tv_gt(msgs[Head(list)].expires, tv)
    THEN 0
    ELSE 1 + ExpiredCount(Tail(list), tv)

\* handle_expired_timeouts, entered with the futex counter at `futex'.
handle_expired_timeouts(futex) ==
    IF futex = 0
    THEN /\ Halt("deadlock", "handle_expired_timeouts")
         /\ async_futex' = futex
         /\ UNCHANGED <<timeout_list, msgs, ready>>
    ELSE LET tv == gettimeofday
             k == ExpiredCount(timeout_list, tv)
             fired == SubSeq(timeout_list, 1, k)
             woken == SelectSeq(fired, LAMBDA m : ~msgs[m].active)
         IN  /\ timeout_list' = SubSeq(timeout_list, k + 1, Len(timeout_list))
             /\ msgs' = [m \in DOMAIN msgs |->
                           IF m \in Range(fired)
                           THEN [msgs[m] EXCEPT !.has_timeout = FALSE, !.active = TRUE]
                           ELSE msgs[m]]
             /\ ready' = ready \o [i \in 1..Len(woken) |-> msgs[woken[i]].ptid]
             /\ async_futex' = futex
             /\ UNCHANGED halted

Tick ==
    /\ Live
    /\ now < MaxTicks
    /\ now' = now + 1
    /\ UNCHANGED <<async_futex, halted, running, mgr_pc, mgr_wait, ready, fpc,
                   fwait, conn, conn_hash_table, timeout_list, calls, answers,
                   routed, delivered, msgs, ret, observed, override>>
    /\ UNCHANGED besideAsync

\* async_manager, line 411: a ready pseudo-thread exists and gets the processor.
async_manager_schedule ==
    /\ Live
    /\ running = MANAGER
    /\ mgr_pc = "loop"
    /\ ready # <<>>
    /\ LET f == Head(ready)
       IN  /\ ready' = Tail(ready)
           /\ IF fpc[f] \in {"start", "get_call", "wait_for", "wait_timeout"}
              THEN /\ running' = f
                   /\ mgr_pc' = "switched"
                   /\ UNCHANGED halted
              ELSE /\ Halt("crash", "psthread_schedule_next_adv")
                   /\ UNCHANGED <<running, mgr_pc>>
    /\ UNCHANGED <<now, async_futex, mgr_wait, fpc, fwait, conn, conn_hash_table,
                   timeout_list, calls, answers, routed, delivered, msgs,
                   ret, observed, override>>
    /\ UNCHANGED besideAsync

\* async_manager, lines 411-428: nothing is ready; the manager works out the
\* timeout of its kernel wait.
async_manager_idle ==
    /\ Live
    /\ running = MANAGER
    /\ mgr_pc = "loop"
    /\ ready = <<>>
    /\ IF async_futex = 0
       THEN /\ Halt("deadlock", "async_manager")
            /\ UNCHANGED <<async_futex, mgr_pc, mgr_wait, timeout_list, msgs, ready>>
       ELSE IF timeout_list # <<>>
            THEN LET amsg == msgs[Head(timeout_list)]
                     tv == gettimeofday
                 IN  IF tv_gt(tv, amsg.expires)
                     THEN /\ handle_expired_timeouts(async_futex - 1)
                          /\ UNCHANGED <<mgr_pc, mgr_wait>>
                     ELSE /\ mgr_wait' = [timed |-> TRUE,
                                          usec |-> tv_sub(amsg.expires, tv),
                                          start |-> NowUsec]
                          /\ mgr_pc' = "wait"
                          /\ UNCHANGED <<async_futex, halted, timeout_list, msgs, ready>>
            ELSE /\ mgr_wait' = [timed |-> FALSE, usec |-> 0, start |-> NowUsec]
                 /\ mgr_pc' = "wait"
                 /\ UNCHANGED <<async_futex, halted, timeout_list, msgs, ready>>
    /\ UNCHANGED <<now, running, fpc, fwait, conn, conn_hash_table, calls,
                   answers, routed, delivered, ret, observed, override>>
    /\ UNCHANGED besideAsync

\* ipc_wait_cycle returns 0: the timeout elapsed (lines 430-435).
ipc_wait_cycle_timeout ==
    /\ Live
    /\ running = MANAGER
    /\ mgr_pc = "wait"
    /\ mgr_wait.timed
    /\ NowUsec - mgr_wait.start >= mgr_wait.usec
    /\ handle_expired_timeouts(async_futex)
    /\ mgr_pc' = "loop"
    /\ UNCHANGED <<now, running, mgr_wait, fpc, fwait, conn, conn_hash_table,
                   calls, answers, routed, delivered, ret, observed, override>>
    /\ UNCHANGED besideAsync

\* reply_received, line 492: msg->retval = retval.
KeepRetval(msg, retval) == msg

StoreRetval(msg, retval) == [msg EXCEPT !.retval = retval]

\* reply_received, lines 498-499: the answer is copied where dataptr points.
CopyDataAlways(msg, data) == [msg EXCEPT !.data = data]

\* reply_received without the copy of the answer.
CopyDataNever(msg, data) == msg

CopyData(msg, data) == IF msg.dataptr THEN [msg EXCEPT !.data = data] ELSE msg

\* reply_received without the test of msg->active at line 506: the waiter
\* recorded in the request is marked ready by every answer.
reply_received_wakes_always(m, retval, data) ==
    LET m0 == [msgs[m] EXCEPT !.answer = retval]   \* the kernel's answer
        m1 == StoreRetval(m0, retval)
        m2 == CopyData(m1, data)
        linked == m \in Range(timeout_list)
        m3 == [m2 EXCEPT !.done = TRUE, !.active = TRUE]
    IN  IF async_futex = 0
        THEN /\ Halt("deadlock", "reply_received")
             /\ msgs' = [msgs EXCEPT ![m] = m1]
             /\ UNCHANGED <<async_futex, timeout_list, ready>>
        ELSE \E o \in UafOutcomes(msgs[m].state = "freed"
                                  \/ (m2.has_timeout /\ ~linked)) :
               IF o = "crash"
               THEN /\ Halt("crash", "reply_received")
                    /\ msgs' = [msgs EXCEPT ![m] = m2]
                    /\ async_futex' = async_futex - 1
                    /\ UNCHANGED <<timeout_list, ready>>
               ELSE /\ timeout_list' = IF m2.has_timeout
                                       THEN RemoveFirst(timeout_list, m)
                                       ELSE timeout_list
                    /\ msgs' = [msgs EXCEPT ![m] = m3]
                    /\ ready' = Append(ready, m2.ptid)
                    /\ UNCHANGED <<async_futex, halted>>

\* reply_received(private = m, retval, data), called from ipc_wait_cycle.
reply_received(m, retval, data) ==
    LET m0 == [msgs[m] EXCEPT !.answer = retval]   \* the kernel's answer
        m1 == StoreRetval(m0, retval)
        m2 == CopyData(m1, data)
        linked == m \in Range(timeout_list)
        m3 == [m2 EXCEPT !.done = TRUE, !.active = TRUE]
    IN  IF async_futex = 0
        THEN /\ Halt("deadlock", "reply_received")
             /\ msgs' = [msgs EXCEPT ![m] = m1]
             /\ UNCHANGED <<async_futex, timeout_list, ready>>
        ELSE \E o \in UafOutcomes(msgs[m].state = "freed"
                                  \/ (m2.has_timeout /\ ~linked)) :
               IF o = "crash"
               THEN /\ Halt("crash", "reply_received")
                    /\ msgs' = [msgs EXCEPT ![m] = m2]
                    /\ async_futex' = async_futex - 1
                    /\ UNCHANGED <<timeout_list, ready>>
               ELSE /\ timeout_list' = IF m2.has_timeout
                                       THEN RemoveFirst(timeout_list, m)
                                       ELSE timeout_list
                    /\ msgs' = [msgs EXCEPT ![m] = m3]
                    /\ ready' = IF ~m2.active THEN Append(ready, m2.ptid) ELSE ready
                    /\ UNCHANGED <<async_futex, halted>>

\* ipc_call_async_2(..., msg, reply_received), line 527: the kernel hands the
\* answer to request m to reply_received with private = msg.
private_of_first(m) == 1

private(m) == m

\* ipc_wait_cycle delivers the answer to a request (lines 430, 437-438).
ipc_wait_cycle_answer(m, retval, data) ==
    /\ Live
    /\ running = MANAGER
    /\ mgr_pc = "wait"
    /\ m \in DOMAIN msgs
    /\ msgs[m].answer = "none"
    /\ reply_received(private(m), retval, data)
    /\ mgr_pc' = "loop"
    /\ UNCHANGED <<now, running, mgr_wait, fpc, fwait, conn, conn_hash_table,
                   calls, answers, routed, delivered, ret, observed, override>>
    /\ UNCHANGED besideAsync

\* route_call, lines 221-224: the new msg_t goes to the tail of the queue.
EnqueuedAtHead(msg_queue, callid) == <<callid>> \o msg_queue

\* route_call without the list_append of line 224.
EnqueuedNowhere(msg_queue, callid) == msg_queue

Enqueued(msg_queue, callid) == Append(msg_queue, callid)

\* An answer that is sent twice.
AnsweredTwice(ans, callid, by, retval) ==
    [ans EXCEPT ![callid] = @ \o <<[by |-> by, retval |-> retval],
                                   [by |-> by, retval |-> retval]>>]

\* ipc_answer_fast(callid, retval, 0, 0), issued by function `by'.
Answered(ans, callid, by, retval) ==
    [ans EXCEPT ![callid] = Append(@, [by |-> by, retval |-> retval])]

\* ipc_wait_cycle delivers a call; handle_call(callid, &call) dispatches it:
\* route_call (lines 204-234), then the switch of lines 359-368 with
\* async_new_connection (lines 317-351).
handle_call(in_phone_hash, method, arg3) ==
    /\ Live
    /\ running = MANAGER
    /\ mgr_pc = "wait"
    /\ Len(calls) < MaxCalls
    /\ LET callid == Len(calls) + 1
           call == [in_phone_hash |-> in_phone_hash, method |-> method,
                    arg3 |-> arg3]
           hlp == hash_table_find(in_phone_hash)
           none == Append(answers, <<>>)
       IN  /\ (hlp = 0 /\ method = "IPC_M_CONNECT_ME_TO") => NConns < MaxConns
           /\ IF async_futex = 0
              THEN /\ Halt("deadlock", "route_call")
                   /\ calls' = Append(calls, call @@ [routed |-> "none"])
                   /\ answers' = none
                   /\ UNCHANGED <<async_futex, mgr_pc, ready, fpc, conn,
                                  conn_hash_table, routed>>
              ELSE IF hlp # 0
              THEN \* route_call found the connection
                   \E ok \in BOOLEAN :
                     IF ~ok
                     THEN /\ Halt("crash", "route_call")
                          /\ calls' = Append(calls, call @@ [routed |-> "none"])
                          /\ answers' = none
                          /\ async_futex' = async_futex - 1
                          /\ UNCHANGED <<mgr_pc, ready, fpc, conn,
                                         conn_hash_table, routed>>
                     ELSE /\ calls' = Append(calls, call @@ [routed |-> "yes"])
                          /\ answers' = none
                          /\ conn' = [conn EXCEPT
                                        ![hlp].msg_queue = Enqueued(@, callid),
                                        ![hlp].active = TRUE]
                          /\ routed' = [routed EXCEPT ![hlp] = Append(@, callid)]
                          /\ ready' = IF ~conn[hlp].active
                                      THEN Append(ready, hlp) ELSE ready
                          /\ mgr_pc' = "loop"
                          /\ UNCHANGED <<async_futex, halted, fpc, conn_hash_table>>
              ELSE /\ calls' = Append(calls, call @@ [routed |-> "no"])
                   /\ mgr_pc' = "loop"
                   /\ UNCHANGED <<async_futex, halted, routed>>
                   /\ CASE method = "IPC_M_INTERRUPT" ->
                             /\ answers' = none
                             /\ UNCHANGED <<ready, fpc, conn, conn_hash_table>>
                        [] method = "IPC_M_CONNECT_ME_TO" ->
                             \E alloc \in {"ok", "no_conn", "no_thread"} :
                               IF alloc # "ok"
                               THEN /\ answers' = Answered(none, callid,
                                                     "async_new_connection", "ENOMEM")
                                    /\ UNCHANGED <<ready, fpc, conn, conn_hash_table>>
                               ELSE LET c == NConns + 1
                                    IN  /\ answers' = none
                                        /\ conn' = [conn EXCEPT ![c] =
                                              [state |-> "alloc",
                                               in_phone_hash |-> arg3,
                                               msg_queue |-> <<>>,
                                               active |-> TRUE,
                                               callid |-> callid]]
                                        /\ conn_hash_table' = Append(conn_hash_table, c)
                                        /\ fpc' = [fpc EXCEPT ![c] = "start"]
                                        /\ ready' = Append(ready, c)
                        [] OTHER ->
                             /\ answers' = Answered(none, callid, "handle_call", "EHANGUP")
                             /\ UNCHANGED <<ready, fpc, conn, conn_hash_table>>
    /\ UNCHANGED <<now, running, mgr_wait, fwait, timeout_list, delivered,
                   msgs, ret, observed, override>>
    /\ UNCHANGED besideAsync

(* ------------------------------------------------------------------ *)
(* Connection pseudo-threads                                           *)
(* ------------------------------------------------------------------ *)
\* connection_thread, lines 290-302, run by pseudo-thread f after its handler
\* returned with the answer history `ans'; then the pseudo-thread is dead and
\* the manager resumes (line 411 returns 1, line 412).
\* hash_table_remove unlinks the first item that matches the key and hands
\* it to conn_remove, which frees it.
connection_thread_exit(f, ans) ==
    IF async_futex = 0
    THEN /\ Halt("deadlock", "connection_thread")
         /\ answers' = ans
         /\ UNCHANGED <<async_futex, conn, conn_hash_table, fpc, running, mgr_pc>>
    ELSE LET key == conn[f].in_phone_hash
             item == hash_table_find(key)
             conn1 == IF item = 0 THEN conn
                      ELSE [conn EXCEPT ![item].state = "freed"]
             queue == conn1[f].msg_queue
         IN  /\ conn_hash_table' = RemoveFirst(conn_hash_table, item)
             /\ \E o \in UafOutcomes(conn1[f].state = "freed") :
                  IF o = "crash"
                  THEN /\ Halt("crash", "connection_thread")
                       /\ conn' = conn1
                       /\ answers' = ans
                       /\ UNCHANGED <<async_futex, fpc, running, mgr_pc>>
                  ELSE /\ conn' = [conn1 EXCEPT ![f].msg_queue = <<>>]
                       /\ answers' = [c \in DOMAIN ans |->
                                        IF c \in Range(queue)
                                        THEN Append(ans[c],
                                                 [by |-> "connection_thread",
                                                  retval |-> "EHANGUP"])
                                        ELSE ans[c]]
                       /\ fpc' = [fpc EXCEPT ![f] = "dead"]
                       /\ running' = MANAGER
                       /\ mgr_pc' = "loop"
                       /\ async_futex' = async_futex + 1
                       /\ UNCHANGED halted

\* client_connection (lines 267-270), the weak default handler.
client_connection_silent(ans, callid) == ans

client_connection(ans, callid) ==
    Answered(ans, callid, "client_connection", "ENOENT")

\* connection_thread, lines 286-288: the new pseudo-thread runs for the first
\* time and calls conn->cthread.  The default client_connection answers
\* ENOENT and returns; a program's own client_connection accepts the
\* connection and goes on to serve it.
connection_thread(f) ==
    /\ Live
    /\ f \in ConnIds
    /\ running = f
    /\ fpc[f] = "start"
    /\ IF override
       THEN /\ answers' = Answered(answers, conn[f].callid, "handler", "EOK")
            /\ fpc' = [fpc EXCEPT ![f] = "run"]
            /\ UNCHANGED <<async_futex, halted, running, mgr_pc, conn, conn_hash_table>>
       ELSE connection_thread_exit(f, client_connection(answers, conn[f].callid))
    /\ UNCHANGED <<now, mgr_wait, ready, fwait, timeout_list, calls, routed,
                   delivered, msgs, ret, observed, override>>
    /\ UNCHANGED besideAsync

\* The program's client_connection returns.
handler_return(f) ==
    /\ Live
    /\ f \in ConnIds
    /\ running = f
    /\ fpc[f] = "run"
    /\ connection_thread_exit(f, answers)
    /\ UNCHANGED <<now, mgr_wait, ready, fwait, timeout_list, calls, routed,
                   delivered, msgs, ret, observed, override>>
    /\ UNCHANGED besideAsync

\* async_get_call, lines 243-250 and, when a message is queued, 252-259.
async_get_call(f) ==
    /\ Live
    /\ f \in ConnIds
    /\ running = f
    /\ fpc[f] = "run"
    /\ IF async_futex = 0
       THEN /\ Halt("deadlock", "async_get_call")
            /\ UNCHANGED <<async_futex, running, mgr_pc, fpc, conn, delivered>>
       ELSE \E o \in UafOutcomes(conn[f].state = "freed") :
              IF o = "crash"
              THEN /\ Halt("crash", "async_get_call")
                   /\ async_futex' = async_futex - 1
                   /\ UNCHANGED <<running, mgr_pc, fpc, conn, delivered>>
              ELSE IF conn[f].msg_queue = <<>>
              THEN /\ conn' = [conn EXCEPT ![f].active = FALSE]
                   /\ fpc' = [fpc EXCEPT ![f] = "get_call"]
                   /\ running' = MANAGER
                   /\ mgr_pc' = "loop"
                   /\ UNCHANGED <<async_futex, halted, delivered>>
              ELSE /\ conn' = [conn EXCEPT ![f].msg_queue = Tail(@)]
                   /\ delivered' = [delivered EXCEPT
                                      ![f] = Append(@, Head(conn[f].msg_queue))]
                   /\ UNCHANGED <<async_futex, halted, running, mgr_pc, fpc>>
    /\ UNCHANGED <<now, mgr_wait, ready, fwait, conn_hash_table, timeout_list,
                   calls, answers, routed, msgs, ret, observed, override>>
    /\ UNCHANGED besideAsync

\* async_get_call, lines 252-259, after psthread_schedule_next_adv returned.
async_get_call_resume(f) ==
    /\ Live
    /\ f \in ConnIds
    /\ running = f
    /\ fpc[f] = "get_call"
    /\ \E o \in UafOutcomes(conn[f].state = "freed") :
         IF o = "crash" \/ conn[f].msg_queue = <<>>
         THEN /\ Halt("crash", "async_get_call")
              /\ UNCHANGED <<async_futex, fpc, conn, delivered>>
         ELSE /\ conn' = [conn EXCEPT ![f].msg_queue = Tail(@)]
              /\ delivered' = [delivered EXCEPT
                                 ![f] = Append(@, Head(conn[f].msg_queue))]
              /\ fpc' = [fpc EXCEPT ![f] = "run"]
              /\ async_futex' = async_futex + 1
              /\ UNCHANGED halted
    /\ UNCHANGED <<now, running, mgr_pc, mgr_wait, ready, fwait, conn_hash_table,
                   timeout_list, calls, answers, routed, msgs, ret, observed, override>>
    /\ UNCHANGED besideAsync

(* ------------------------------------------------------------------ *)
(* Sending and waiting                                                 *)
(* ------------------------------------------------------------------ *)
\* psthread_schedule_next_adv(PS_TO_MANAGER) by f, which stays at `pc'; the
\* manager resumes and releases the futex (line 412, or line 453 when it
\* runs for the first time).
ToManager(f, pc, futex) ==
    /\ fpc' = [fpc EXCEPT ![f] = pc]
    /\ running' = MANAGER
    /\ mgr_pc' = "loop"
    /\ async_futex' = futex + 1

\* The peer: the request of message m carries arg1 = m and the peer echoes
\* it; it accepts the odd requests and refuses the even ones.  The framework
\* copies both values without looking at them.
Arg1(m) == m

Retval(m) == IF m % 2 = 1 THEN "EOK" ELSE "EHANGUP"

\* What the caller of a wait sees when the wait returns rc for message m,
\* next to what the kernel answered for m.
Returned(m, kind, rc, parked) ==
    [m |-> m, kind |-> kind, rc |-> rc,
     retval |-> IF rc = "EOK" THEN msgs[m].retval ELSE "none",
     dataptr |-> msgs[m].dataptr,
     data |-> IF rc = "EOK" /\ msgs[m].dataptr THEN msgs[m].data ELSE 0,
     parked |-> parked,
     answer |-> msgs[m].answer,
     timedout |-> msgs[m].timedout]

\* free(msg)
Freed(m) ==
    [owner |-> msgs[m].owner, ptid |-> NoFiber, active |-> TRUE, done |-> TRUE,
     dataptr |-> FALSE, has_timeout |-> FALSE,
     expires |-> [tv_sec |-> 0, tv_usec |-> 0], retval |-> "freed", data |-> 0,
     state |-> "freed", answer |-> "consumed", timedout |-> FALSE]

\* Lines 556-560 and 616-621: copy the return value out, free the message.
Collect(m, kind, parked) ==
    /\ ret' = Returned(m, kind, "EOK", parked)
    /\ observed' = IF msgs[m].dataptr
                   THEN observed \cup {<<m, msgs[m].data>>} ELSE observed
    /\ msgs' = [msgs EXCEPT ![m] = Freed(m)]

\* async_wait_timeout, lines 613-614: the message stays allocated.
AbandonAndFree(m) == [msgs EXCEPT ![m] = Freed(m)]

Abandon(m) == [msgs EXCEPT ![m].timedout = TRUE]

\* async_send_2 (lines 518-530).  has_timeout, ptid, expires, link and retval
\* are left as malloc returned them.
async_send_2(f, dataptr, garbage) ==
    /\ Live
    /\ running = f
    /\ fpc[f] = "run"
    /\ Len(msgs) < MaxMsgs
    /\ \E ok \in BOOLEAN :
         IF ~ok
         THEN /\ Halt("crash", "async_send_2")
              /\ UNCHANGED msgs
         ELSE /\ msgs' = Append(msgs,
                    [owner |-> f, ptid |-> NoFiber, active |-> TRUE,
                     done |-> FALSE, dataptr |-> dataptr,
                     has_timeout |-> garbage,
                     expires |-> [tv_sec |-> 0, tv_usec |-> 0],
                     retval |-> "garbage", data |-> 0, state |-> "alloc",
                     answer |-> "none", timedout |-> FALSE])
              /\ UNCHANGED halted
    /\ ret' = NoRet
    /\ UNCHANGED <<now, async_futex, running, mgr_pc, mgr_wait, ready, fpc,
                   fwait, conn, conn_hash_table, timeout_list, calls, answers,
                   routed, delivered, observed, override>>
    /\ UNCHANGED besideAsync

\* async_wait_for (lines 539-554, and 556-560 when the reply is there).
async_wait_for(f, m) ==
    /\ Live
    /\ running = f
    /\ fpc[f] = "run"
    /\ m \in DOMAIN msgs
    /\ msgs[m].owner = f
    /\ msgs[m].state = "alloc"
    /\ IF async_futex = 0
       THEN /\ Halt("deadlock", "async_wait_for")
            /\ UNCHANGED <<async_futex, running, mgr_pc, fpc, fwait, msgs,
                           ret, observed>>
       ELSE IF msgs[m].done
       THEN /\ Collect(m, "wait_for", FALSE)
            /\ UNCHANGED <<async_futex, halted, running, mgr_pc, fpc, fwait>>
       ELSE /\ msgs' = [msgs EXCEPT ![m].ptid = f, ![m].active = FALSE,
                                    ![m].has_timeout = FALSE]
            /\ fwait' = [fwait EXCEPT ![f] = [m |-> m, timeout |-> 0]]
            /\ ToManager(f, "wait_for", async_futex - 1)
            /\ ret' = NoRet
            /\ UNCHANGED <<halted, observed>>
    /\ UNCHANGED <<now, mgr_wait, ready, conn, conn_hash_table, timeout_list,
                   calls, answers, routed, delivered, override>>
    /\ UNCHANGED besideAsync

\* async_wait_for, lines 556-560, after psthread_schedule_next_adv returned.
async_wait_for_resume(f) ==
    /\ Live
    /\ running = f
    /\ fpc[f] = "wait_for"
    /\ Collect(fwait[f].m, "wait_for", TRUE)
    /\ fpc' = [fpc EXCEPT ![f] = "run"]
    /\ fwait' = [fwait EXCEPT ![f] = NoArgs]
    /\ UNCHANGED <<now, async_futex, halted, running, mgr_pc, mgr_wait, ready,
                   conn, conn_hash_table, timeout_list, calls, answers, routed,
                   delivered, override>>
    /\ UNCHANGED besideAsync

\* An insertion that does not look at the deadlines.
insert_timeout_at_tail(list, m, expires) == Append(list, m)

\* insert_timeout (lines 566-579): before the first entry that expires later.
insert_timeout(list, m, expires) ==
    LET later == {i \in 1..Len(list) : tv_gt(msgs[list[i]].expires, expires)}
        k == IF later = {} THEN Len(list) + 1
             ELSE CHOOSE i \in later : \A j \in later : i <= j
    IN  SubSeq(list, 1, k - 1) \o <<m>> \o SubSeq(list, k, Len(list))

\* async_wait_timeout (lines 590-610, and 616-621 when the reply is there).
async_wait_timeout(f, m, timeout) ==
    /\ Live
    /\ running = f
    /\ fpc[f] = "run"
    /\ m \in DOMAIN msgs
    /\ msgs[m].owner = f
    /\ msgs[m].state = "alloc"
    /\ IF async_futex = 0
       THEN /\ Halt("deadlock", "async_wait_timeout")
            /\ UNCHANGED <<async_futex, running, mgr_pc, fpc, fwait, msgs,
                           ret, observed, timeout_list>>
       ELSE IF msgs[m].done
       THEN /\ Collect(m, "wait_timeout", FALSE)
            /\ UNCHANGED <<async_futex, halted, running, mgr_pc, fpc, fwait,
                           timeout_list>>
       ELSE LET expires == tv_add(gettimeofday, timeout)
            IN  /\ msgs' = [msgs EXCEPT ![m].ptid = f, ![m].active = FALSE,
                                        ![m].has_timeout = TRUE,
                                        ![m].expires = expires]
                /\ timeout_list' = insert_timeout(timeout_list, m, expires)
                /\ fwait' = [fwait EXCEPT ![f] = [m |-> m, timeout |-> timeout]]
                /\ ToManager(f, "wait_timeout", async_futex - 1)
                /\ ret' = NoRet
                /\ UNCHANGED <<halted, observed>>
    /\ UNCHANGED <<now, mgr_wait, ready, conn, conn_hash_table, calls, answers,
                   routed, delivered, override>>
    /\ UNCHANGED besideAsync

\* async_wait_timeout, lines 613-621, after psthread_schedule_next_adv returned.
async_wait_timeout_resume(f) ==
    /\ Live
    /\ running = f
    /\ fpc[f] = "wait_timeout"
    /\ LET m == fwait[f].m
       IN  IF ~msgs[m].done
           THEN /\ ret' = Returned(m, "wait_timeout", "ETIMEOUT", TRUE)
                /\ msgs' = Abandon(m)
                /\ UNCHANGED observed
           ELSE Collect(m, "wait_timeout", TRUE)
    /\ fpc' = [fpc EXCEPT ![f] = "run"]
    /\ fwait' = [fwait EXCEPT ![f] = NoArgs]
    /\ UNCHANGED <<now, async_futex, halted, running, mgr_pc, mgr_wait, ready,
                   conn, conn_hash_table, timeout_list, calls, answers, routed,
                   delivered, override>>
    /\ UNCHANGED besideAsync

(* ------------------------------------------------------------------ *)
(* UDP associations                                                    *)
(* ------------------------------------------------------------------ *)
AssocIds == 1..MaxAssocs
Fibrils == 1..MaxFibrils

\* Endpoints: an address and a port, each possibly the wildcard.
inet_addr_any == "any"
inet_port_any == "any"
AnyEp == [addr |-> inet_addr_any, port |-> inet_port_any]

\* The endpoint pairs associations are created with, and the endpoint pairs
\* of incoming datagrams.
Idents ==
    {[local |-> ep, remote |-> AnyEp] :
        ep \in {[addr |-> inet_addr_any, port |-> "53"],
                [addr |-> "10.0.0.1", port |-> inet_port_any]}}
\* The identities of a service with a wildcard listener, a listener bound to
\* one address, and an association that is not bound to a port.
DemuxIdents ==
    Idents \cup {[local |-> [addr |-> "10.0.0.1", port |-> "53"],
                  remote |-> AnyEp]}
\* Datagrams for 10.0.0.1:53 from two remotes.
QueueEpps ==
    {[local |-> [addr |-> "10.0.0.1", port |-> "53"],
      remote |-> [addr |-> ra, port |-> "1024"]] :
        ra \in {"10.0.0.8", "10.0.0.9"}}
Incoming ==
    {[local |-> [addr |-> la, port |-> "53"],
      remote |-> [addr |-> "10.0.0.9", port |-> "1024"]] :
        la \in {"10.0.0.1", "10.0.0.2"}}

NoAssoc == [state |-> "none", refcnt |-> 0, deleted |-> FALSE, reset |-> FALSE,
            rcv_queue |-> <<>>, ident |-> [local |-> AnyEp, remote |-> AnyEp],
            user |-> FALSE]

\* The caller's msg and remote before udp_assoc_recv has stored anything.
NoRecvd == [msg |-> 0, remote |-> AnyEp]

AssocInit ==
    /\ assoc = [a \in AssocIds |-> NoAssoc]
    /\ assoc_list = <<>>
    /\ apc = [p \in Fibrils |-> "idle"]
    /\ aarg = [p \in Fibrils |-> 0]
    /\ ares = [p \in Fibrils |-> "none"]
    /\ cv_waiters = [a \in AssocIds |-> {}]
    /\ uaf = {}
    /\ recvd = [p \in Fibrils |-> NoRecvd]
    /\ nmsgs = 0
    /\ deleted_msgs = <<>>

\* The service runs until an access to freed memory brings it down.
AssocLive == \A u \in uaf : u.outcome # "crash"

\* A match in which a wildcard in ep is accepted like one in patt.
udp_ep_match_symmetric(ep, patt) ==
    /\ patt.addr = inet_addr_any \/ ep.addr = inet_addr_any \/ patt.addr = ep.addr
    /\ patt.port = inet_port_any \/ ep.port = inet_port_any \/ patt.port = ep.port

\* udp_ep_match(ep, patt)
udp_ep_match(ep, patt) ==
    IF patt.addr # inet_addr_any /\ patt.addr # ep.addr
    THEN FALSE
    ELSE IF patt.port # inet_port_any /\ patt.port # ep.port
    THEN FALSE
    ELSE TRUE

\* udp_ep2_match(epp, pattern)
udp_ep2_match(epp, pattern) ==
    IF ~udp_ep_match(epp.local, pattern.local)
    THEN FALSE
    ELSE IF ~udp_ep_match(epp.remote, pattern.remote)
    THEN FALSE
    ELSE TRUE

\* The walk of assoc_list without the test that skips unbound associations.
udp_assoc_find_ref_unbound(epp) ==
    LET hits == SelectSeq(assoc_list,
                    LAMBDA a : udp_ep2_match(epp, assoc[a].ident))
    IN  IF hits = <<>> THEN 0 ELSE Head(hits)

\* A walk of assoc_list that goes on after a match and returns the last one.
udp_assoc_find_ref_last(epp) ==
    LET hits == SelectSeq(assoc_list,
                    LAMBDA a : /\ assoc[a].ident.local.port # inet_port_any
                               /\ udp_ep2_match(epp, assoc[a].ident))
    IN  IF hits = <<>> THEN 0 ELSE hits[Len(hits)]

\* udp_assoc_find_ref(epp): the association the walk of assoc_list returns;
\* 0 when the walk ends without a match.
udp_assoc_find_ref(epp) ==
    LET hits == SelectSeq(assoc_list,
                    LAMBDA a : /\ assoc[a].ident.local.port # inet_port_any
                               /\ udp_ep2_match(epp, assoc[a].ident))
    IN  IF hits = <<>> THEN 0 ELSE Head(hits)

\* A reference that is handed out without being counted.
udp_assoc_addref_uncounted(rec) == rec

\* udp_assoc_addref on the structure rec
udp_assoc_addref(rec) == [rec EXCEPT !.refcnt = @ + 1]

\* A release of the structure that leaves the receive queue alone.
udp_assoc_free_unflushed(rec) == [rec EXCEPT !.state = "freed"]

\* udp_assoc_free on the structure rec: the receive queue is flushed, the
\* structure is freed.
udp_assoc_free(rec) == [rec EXCEPT !.state = "freed", !.rcv_queue = <<>>]

\* udp_assoc_delref on the structure rec
udp_assoc_delref(rec) ==
    LET r == [rec EXCEPT !.refcnt = @ - 1]
    IN  IF r.refcnt = 0 THEN udp_assoc_free(r) ELSE r

\* udp_assoc_free, lines 111-119: the messages of the entries that were
\* taken off the queue of rec, head first, when rec became rec2; each was
\* passed to udp_msg_delete.
FlushedMsgs(rec, rec2) ==
    [i \in 1..(Len(rec.rcv_queue) - Len(rec2.rcv_queue)) |->
        rec.rcv_queue[i].msg]

NAssocs == Cardinality({a \in AssocIds : assoc[a].state # "none"})

\* No fibril is inside udp_assoc_recv on association a.
NoReceiver(a) ==
    \A q \in Fibrils : apc[q] \in {"recv_wait", "recv_woken"} => aarg[q] # a

\* udp_assoc_new(epp, cb, cb_arg) by fibril p; calloc may fail.
udp_assoc_new(p, epp) ==
    /\ AssocLive
    /\ apc[p] = "idle"
    /\ \E a \in AssocIds :
         /\ assoc[a].state = "none"
         /\ \A b \in AssocIds : b < a => assoc[b].state # "none"
         /\ \E ok \in BOOLEAN :
              IF ok
              THEN assoc' = [assoc EXCEPT ![a] =
                       [state |-> "alloc", refcnt |-> 1, deleted |-> FALSE,
                        reset |-> FALSE, rcv_queue |-> <<>>, ident |-> epp,
                        user |-> TRUE]]
              ELSE UNCHANGED assoc
    /\ UNCHANGED <<assoc_list, apc, aarg, ares, cv_waiters, uaf>>
    /\ UNCHANGED besideAssoc

\* udp_assoc_add(assoc) by the user of a.
udp_assoc_add(p, a) ==
    /\ AssocLive
    /\ apc[p] = "idle"
    /\ assoc[a].state = "alloc" /\ assoc[a].user
    /\ a \notin Range(assoc_list)
    /\ assoc' = [assoc EXCEPT ![a] = udp_assoc_addref(@)]
    /\ assoc_list' = Append(assoc_list, a)
    /\ UNCHANGED <<apc, aarg, ares, cv_waiters, uaf>>
    /\ UNCHANGED besideAssoc

\* udp_assoc_remove(assoc): the list gives its reference up.
udp_assoc_remove(p, a) ==
    /\ AssocLive
    /\ apc[p] = "idle"
    /\ a \in Range(assoc_list)
    /\ assoc_list' = RemoveFirst(assoc_list, a)
    /\ assoc' = [assoc EXCEPT ![a] = udp_assoc_delref(@)]
    /\ deleted_msgs' = deleted_msgs \o FlushedMsgs(assoc[a], assoc'[a])
    /\ UNCHANGED <<apc, aarg, ares, cv_waiters, uaf, recvd, nmsgs>>
    /\ UNCHANGED besideQueue

\* udp_assoc_delete(assoc): the user gives its reference up; it has no
\* call on the association in progress.
udp_assoc_delete(p, a) ==
    /\ AssocLive
    /\ apc[p] = "idle"
    /\ assoc[a].state = "alloc" /\ assoc[a].user
    /\ ~assoc[a].deleted
    /\ NoReceiver(a)
    /\ LET r == [udp_assoc_delref(assoc[a]) EXCEPT !.user = FALSE]
       IN  IF r.state = "freed"
           THEN \* assoc->deleted = true is a write to freed memory
                \E o \in UafOutcomes(TRUE) :
                  /\ uaf' = uaf \cup {[op |-> "udp_assoc_delete", a |-> a,
                                       outcome |-> o]}
                  /\ assoc' = [assoc EXCEPT ![a] = r]
           ELSE /\ assoc' = [assoc EXCEPT ![a] = [r EXCEPT !.deleted = TRUE]]
                /\ UNCHANGED uaf
    /\ deleted_msgs' = deleted_msgs \o FlushedMsgs(assoc[a], assoc'[a])
    /\ UNCHANGED <<assoc_list, apc, aarg, ares, cv_waiters, recvd, nmsgs>>
    /\ UNCHANGED besideQueue

\* udp_assoc_received with the branch of lines 355-361 taken: the message is
\* queued on the association before the callback gets it.
udp_assoc_received_queued(p, repp) ==
    /\ AssocLive
    /\ apc[p] = "idle"
    /\ LET a == udp_assoc_find_ref(repp)
       IN  IF a = 0
           THEN /\ apc' = [apc EXCEPT ![p] = "msg_delete"]
                /\ UNCHANGED <<assoc, aarg>>
           ELSE /\ assoc' = [assoc EXCEPT ![a] =
                         [udp_assoc_addref(@) EXCEPT
                             !.rcv_queue =
                                 Append(@, [epp |-> repp, msg |-> 1])]]
                /\ apc' = [apc EXCEPT ![p] = "recv_msg"]
                /\ aarg' = [aarg EXCEPT ![p] = a]
    /\ UNCHANGED <<assoc_list, ares, cv_waiters, uaf>>
    /\ UNCHANGED besideAssoc

\* udp_assoc_received(repp, msg), lines 339-349 and 363-364: the lookup;
\* without a match the fibril is at udp_msg_delete (line 351), with one at
\* cb->recv_msg (line 364), which takes the message.
udp_assoc_received(p, repp) ==
    /\ AssocLive
    /\ apc[p] = "idle"
    /\ LET a == udp_assoc_find_ref(repp)
       IN  IF a = 0
           THEN /\ apc' = [apc EXCEPT ![p] = "msg_delete"]
                /\ UNCHANGED <<assoc, aarg>>
           ELSE /\ assoc' = [assoc EXCEPT ![a] = udp_assoc_addref(@)]
                /\ apc' = [apc EXCEPT ![p] = "recv_msg"]
                /\ aarg' = [aarg EXCEPT ![p] = a]
    /\ UNCHANGED <<assoc_list, ares, cv_waiters, uaf>>
    /\ UNCHANGED besideAssoc

\* udp_assoc_received, lines 351-352: udp_msg_delete has returned and the
\* function returns; no reference was taken and none is given up.
udp_assoc_received_dropped(p) ==
    /\ AssocLive
    /\ apc[p] = "msg_delete"
    /\ apc' = [apc EXCEPT ![p] = "idle"]
    /\ UNCHANGED <<assoc, assoc_list, aarg, ares, cv_waiters, uaf>>
    /\ UNCHANGED besideAssoc

\* udp_assoc_received, lines 362-365: cb->recv_msg has returned, the
\* reference of the lookup is given up.
udp_assoc_received_done(p) ==
    /\ AssocLive
    /\ apc[p] = "recv_msg"
    /\ assoc' = [assoc EXCEPT ![aarg[p]] = udp_assoc_delref(@)]
    /\ deleted_msgs' =
          deleted_msgs \o FlushedMsgs(assoc[aarg[p]], assoc'[aarg[p]])
    /\ apc' = [apc EXCEPT ![p] = "idle"]
    /\ aarg' = [aarg EXCEPT ![p] = 0]
    /\ UNCHANGED <<assoc_list, ares, cv_waiters, uaf, recvd, nmsgs>>
    /\ UNCHANGED besideQueue

\* The body of udp_assoc_recv with the test of reset after the queue: what
\* is queued is handed out before the reset is reported.
recv_locked_queue_first(p, a) ==
    IF assoc[a].rcv_queue = <<>> /\ ~assoc[a].reset
    THEN /\ apc' = [apc EXCEPT ![p] = "recv_wait"]
         /\ aarg' = [aarg EXCEPT ![p] = a]
         /\ cv_waiters' = [cv_waiters EXCEPT ![a] = @ \cup {p}]
         /\ ares' = [ares EXCEPT ![p] = "none"]
         /\ UNCHANGED <<assoc, recvd>>
    ELSE /\ apc' = [apc EXCEPT ![p] = "idle"]
         /\ aarg' = [aarg EXCEPT ![p] = 0]
         /\ UNCHANGED cv_waiters
         /\ IF assoc[a].rcv_queue = <<>>
            THEN /\ ares' = [ares EXCEPT ![p] = "ENXIO"]
                 /\ UNCHANGED <<assoc, recvd>>
            ELSE LET rqe == Head(assoc[a].rcv_queue)
                 IN  /\ ares' = [ares EXCEPT ![p] = "EOK"]
                     /\ assoc' = [assoc EXCEPT ![a].rcv_queue = Tail(@)]
                     /\ recvd' = [recvd EXCEPT ![p] =
                                     [msg |-> rqe.msg,
                                      remote |-> rqe.epp.remote]]

\* udp_assoc_recv, lines 310-332, with assoc->lock held: from the test of
\* the loop to the wait or to the return.
recv_locked(p, a) ==
    IF assoc[a].rcv_queue = <<>> /\ ~assoc[a].reset
    THEN /\ apc' = [apc EXCEPT ![p] = "recv_wait"]
         /\ aarg' = [aarg EXCEPT ![p] = a]
         /\ cv_waiters' = [cv_waiters EXCEPT ![a] = @ \cup {p}]
         /\ ares' = [ares EXCEPT ![p] = "none"]
         /\ UNCHANGED <<assoc, recvd>>
    ELSE /\ apc' = [apc EXCEPT ![p] = "idle"]
         /\ aarg' = [aarg EXCEPT ![p] = 0]
         /\ UNCHANGED cv_waiters
         /\ IF assoc[a].reset
            THEN /\ ares' = [ares EXCEPT ![p] = "ENXIO"]
                 /\ UNCHANGED <<assoc, recvd>>
            ELSE LET rqe == Head(assoc[a].rcv_queue)
                 IN  /\ ares' = [ares EXCEPT ![p] = "EOK"]
                     /\ assoc' = [assoc EXCEPT ![a].rcv_queue = Tail(@)]
                     /\ recvd' = [recvd EXCEPT ![p] =
                                     [msg |-> rqe.msg,
                                      remote |-> rqe.epp.remote]]

\* udp_assoc_recv(assoc, msg, remote) called by a user of a.
udp_assoc_recv(p, a) ==
    /\ AssocLive
    /\ apc[p] = "idle"
    /\ assoc[a].state = "alloc" /\ assoc[a].user
    /\ recv_locked(p, a)
    /\ UNCHANGED <<assoc_list, uaf, nmsgs, deleted_msgs>>
    /\ UNCHANGED besideQueue

\* fibril_condvar_wait returns in udp_assoc_recv: the loop test again.
udp_assoc_recv_resume(p) ==
    /\ AssocLive
    /\ apc[p] = "recv_woken"
    /\ recv_locked(p, aarg[p])
    /\ UNCHANGED <<assoc_list, uaf, nmsgs, deleted_msgs>>
    /\ UNCHANGED besideQueue

\* udp_assoc_reset(assoc) called by a user of a.
udp_assoc_reset_silent(p, a) ==
    /\ AssocLive
    /\ apc[p] = "idle"
    /\ assoc[a].state = "alloc" /\ assoc[a].user
    /\ assoc' = [assoc EXCEPT ![a].reset = TRUE]
    /\ UNCHANGED <<apc, cv_waiters, assoc_list, aarg, ares, uaf>>
    /\ UNCHANGED besideAssoc

udp_assoc_reset(p, a) ==
    /\ AssocLive
    /\ apc[p] = "idle"
    /\ assoc[a].state = "alloc" /\ assoc[a].user
    /\ assoc' = [assoc EXCEPT ![a].reset = TRUE]
    /\ apc' = [q \in Fibrils |->
                 IF q \in cv_waiters[a] THEN "recv_woken" ELSE apc[q]]
    /\ cv_waiters' = [cv_waiters EXCEPT ![a] = {}]
    /\ UNCHANGED <<assoc_list, aarg, ares, uaf>>
    /\ UNCHANGED besideAssoc

\* udp_assoc_queue_msg(assoc, epp, msg), lines 381-404, called by fibril p
\* with a new message; calloc of the queue entry may fail (ENOMEM, line
\* 390), otherwise the entry goes to the end of rcv_queue and every fibril
\* asleep on rcv_queue_cv is woken.
udp_assoc_queue_msg(p, a, epp, calloc_ok) ==
    /\ AssocLive
    /\ apc[p] = "idle"
    /\ assoc[a].state = "alloc"
    /\ nmsgs < MaxQueued
    /\ nmsgs' = nmsgs + 1
    /\ IF calloc_ok
       THEN /\ assoc' = [assoc EXCEPT ![a].rcv_queue =
                            Append(@, [epp |-> epp, msg |-> nmsgs + 1])]
            /\ apc' = [q \in Fibrils |->
                         IF q \in cv_waiters[a] THEN "recv_woken" ELSE apc[q]]
            /\ cv_waiters' = [cv_waiters EXCEPT ![a] = {}]
       ELSE UNCHANGED <<assoc, apc, cv_waiters>>
    /\ UNCHANGED <<assoc_list, aarg, ares, uaf, recvd, deleted_msgs>>
    /\ UNCHANGED besideQueue

(* ------------------------------------------------------------------ *)
(* udp_assoc_send                                                      *)
(* ------------------------------------------------------------------ *)
\* inet_addr_t.version
AddrVersion(addr) ==
    IF addr = inet_addr_any THEN "ip_any"
    ELSE IF addr = "fe80::1" THEN "ip_v6"
    ELSE "ip_v4"

inet_addr_is_any(addr) == addr = inet_addr_any

\* remote == NULL
NullEp == [addr |-> "null", port |-> "null"]

\* The remote endpoints callers pass to udp_assoc_send.
SendRemotes ==
    {NullEp, AnyEp,
     [addr |-> "10.0.0.9", port |-> inet_port_any],
     [addr |-> inet_addr_any, port |-> "1024"],
     [addr |-> "10.0.0.9", port |-> "1024"],
     [addr |-> "fe80::1", port |-> "1024"]}

\* The identities of the associations that send: a connected one, and
\* listeners without a remote endpoint.
SendIdents ==
    {[local |-> [addr |-> "10.0.0.1", port |-> "53"],
      remote |-> [addr |-> "10.0.0.9", port |-> "1024"]],
     [local |-> [addr |-> "10.0.0.1", port |-> "53"], remote |-> AnyEp],
     [local |-> [addr |-> inet_addr_any, port |-> "53"], remote |-> AnyEp]}

NoSend == [called |-> FALSE, ident |-> [local |-> AnyEp, remote |-> AnyEp],
           remote |-> NullEp, rc |-> "none", encode |-> FALSE,
           transmit |-> FALSE,
           epp |-> [local |-> AnyEp, remote |-> AnyEp], pdu_deleted |-> 0]

SendInit == sendret = NoSend

\* udp_assoc_send, lines 266-268: the endpoint pair the datagram is sent with.
send_epp(ident, remote) ==
    IF remote # NullEp THEN [ident EXCEPT !.remote = remote] ELSE ident

\* The test of the remote endpoint without the test of its port.
send_remote_unset_addr_only(epp) == inet_addr_is_any(epp.remote.addr)

\* udp_assoc_send, lines 272-274: the remote endpoint is not set.
send_remote_unset(epp) ==
    inet_addr_is_any(epp.remote.addr) \/ epp.remote.port = inet_port_any

\* A send that applies the override of the remote endpoint to assoc->ident
\* itself before it takes the copy.
udp_assoc_send_in_place(p, a, remote, encoded, transmitted) ==
    /\ AssocLive
    /\ apc[p] = "idle"
    /\ assoc[a].state = "alloc" /\ assoc[a].user
    /\ LET epp == send_epp(assoc[a].ident, remote)
           did(rc, enc, tx) ==
               [called |-> TRUE, ident |-> assoc[a].ident, remote |-> remote,
                rc |-> rc, encode |-> enc, transmit |-> tx,
                epp |-> epp, pdu_deleted |-> IF tx THEN 1 ELSE 0]
       IN  sendret' =
             IF send_remote_unset(epp)
             THEN did("EINVAL", FALSE, FALSE)
             ELSE IF AddrVersion(epp.remote.addr) # AddrVersion(epp.local.addr)
             THEN did("EINVAL", FALSE, FALSE)
             ELSE IF ~encoded
             THEN did("ENOMEM", TRUE, FALSE)
             ELSE IF ~transmitted
             THEN did("EIO", TRUE, TRUE)
             ELSE did("EOK", TRUE, TRUE)
    /\ assoc' = [assoc EXCEPT ![a].ident = send_epp(@, remote)]
    /\ UNCHANGED <<assoc_list, apc, aarg, ares, cv_waiters, uaf, recvVars>>
    /\ UNCHANGED <<match, threadVars>>
    /\ UNCHANGED asyncVars

\* udp_assoc_send(assoc, remote, msg) by a user of a; encoded and
\* transmitted are the outcomes of udp_pdu_encode and udp_transmit_pdu.
\* sendret tells whether the two were called, the endpoint pair the local
\* copy epp held, and how often udp_pdu_delete was called (line 287,
\* right after udp_transmit_pdu, whatever that returned).
udp_assoc_send(p, a, remote, encoded, transmitted) ==
    /\ AssocLive
    /\ apc[p] = "idle"
    /\ assoc[a].state = "alloc" /\ assoc[a].user
    /\ LET epp == send_epp(assoc[a].ident, remote)
           did(rc, enc, tx) ==
               [called |-> TRUE, ident |-> assoc[a].ident, remote |-> remote,
                rc |-> rc, encode |-> enc, transmit |-> tx,
                epp |-> epp, pdu_deleted |-> IF tx THEN 1 ELSE 0]
       IN  sendret' =
             IF send_remote_unset(epp)
             THEN did("EINVAL", FALSE, FALSE)
             ELSE IF AddrVersion(epp.remote.addr) # AddrVersion(epp.local.addr)
             THEN did("EINVAL", FALSE, FALSE)
             ELSE IF ~encoded
             THEN did("ENOMEM", TRUE, FALSE)
             ELSE IF ~transmitted
             THEN did("EIO", TRUE, TRUE)
             ELSE did("EOK", TRUE, TRUE)
    /\ UNCHANGED <<assocVars, match, threadVars>>
    /\ UNCHANGED asyncVars

(* ------------------------------------------------------------------ *)
(* udp_ep_match as a function of its arguments                         *)
(* ------------------------------------------------------------------ *)
\* The endpoints and patterns udp_ep_match is called with.
Endpoints ==
    {[addr |-> ad, port |-> po] :
        ad \in {inet_addr_any, "10.0.0.1", "10.0.0.2"},
        po \in {inet_port_any, "53", "1024"}}

NoMatch == [ep |-> AnyEp, patt |-> AnyEp, called |-> FALSE, result |-> FALSE]

MatchInit == match = NoMatch

\* A caller holds an endpoint and a pattern and calls udp_ep_match.
udp_ep_match_call ==
    /\ ~match.called
    /\ match' = [match EXCEPT !.called = TRUE,
                              !.result = udp_ep_match(match.ep, match.patt)]
    /\ UNCHANGED <<assocVars, sendret, threadVars>>
    /\ UNCHANGED asyncVars

(* ------------------------------------------------------------------ *)
(* Threads                                                             *)
(* ------------------------------------------------------------------ *)
\* The thread that runs the test is thread 0; the threads it creates get
\* the identifiers 1, 2, ...
MainThread == 0
ThreadIds == MainThread..MaxThreads

\* state: none, running, exited (the function has returned), joined.
NoThread == [state |-> "none", fn |-> "none", arg |-> 0, pc |-> "none"]

\* target, rc: the last thread_join of the thread; finished: whether the
\* function of the target had returned when the join returned.
NoJoin == [target |-> 0, rc |-> "none", finished |-> FALSE]

ThreadInit ==
    /\ threads = [t \in ThreadIds |->
                     IF t = MainThread
                     THEN [state |-> "running", fn |-> "test", arg |-> 0,
                           pc |-> "run"]
                     ELSE NoThread]
    /\ tret = [t \in ThreadIds |-> NoJoin]
    /\ done_count = 0
    /\ nested_join_result = "none"

Created == {t \in ThreadIds : t # MainThread /\ threads[t].state # "none"}

\* thread_create(fn, arg, name, &tid) by the test.
thread_create(fn, arg) ==
    /\ threads[MainThread].pc = "run"
    /\ \E t \in ThreadIds :
         /\ threads[t].state = "none"
         /\ \A u \in ThreadIds : u < t => threads[u].state # "none"
         /\ threads' = [threads EXCEPT ![t] =
                [state |-> "running", fn |-> fn, arg |-> arg, pc |-> "start"]]
    /\ UNCHANGED <<tret, done_count, nested_join_result>>
    /\ UNCHANGED <<asyncVars, assocVars, sendVars>>

\* test_thread_sleeper, line 64: thread_sleep(SLEEP_SEC) has elapsed.
test_thread_sleeper(t) ==
    /\ threads[t].fn = "test_thread_sleeper" /\ threads[t].pc = "start"
    /\ threads' = [threads EXCEPT ![t].pc = "slept"]
    /\ UNCHANGED <<tret, done_count, nested_join_result>>
    /\ UNCHANGED <<asyncVars, assocVars, sendVars>>

\* test_thread_sleeper, lines 65-66: incr_counter(), and the function returns.
test_thread_sleeper_return(t) ==
    /\ threads[t].fn = "test_thread_sleeper" /\ threads[t].pc = "slept"
    /\ done_count' = done_count + 1
    /\ threads' = [threads EXCEPT ![t].pc = "returned", ![t].state = "exited"]
    /\ UNCHANGED <<tret, nested_join_result>>
    /\ UNCHANGED <<asyncVars, assocVars, sendVars>>

\* test_thread_joiner, line 108.
test_thread_joiner(t) ==
    /\ threads[t].fn = "test_thread_joiner" /\ threads[t].pc = "start"
    /\ nested_join_result' = "EINVAL"
    /\ threads' = [threads EXCEPT ![t].pc = "run"]
    /\ UNCHANGED <<tret, done_count>>
    /\ UNCHANGED <<asyncVars, assocVars, sendVars>>

\* test_thread_joiner, lines 109-110: the result of thread_join is stored
\* and the function returns.
test_thread_joiner_return(t) ==
    /\ threads[t].fn = "test_thread_joiner" /\ threads[t].pc = "run"
    /\ tret[t].rc # "none"
    /\ nested_join_result' = tret[t].rc
    /\ threads' = [threads EXCEPT ![t].pc = "returned", ![t].state = "exited"]
    /\ UNCHANGED <<tret, done_count>>
    /\ UNCHANGED <<asyncVars, assocVars, sendVars>>

\* A join that does not tell the caller's own thread apart.
join_error_no_self(c, t) ==
    IF threads[t].state \in {"none", "joined"} THEN "ENOENT" ELSE "none"

\* A join that does not tell a joined thread apart.
join_error_no_joined(c, t) ==
    IF t = c THEN "EINVAL" ELSE "none"

\* The error thread_join(t) by thread c returns at once; "none" when the
\* caller has to wait for t.
join_error(c, t) ==
    IF t = c THEN "EINVAL"
    ELSE IF threads[t].state \in {"none", "joined"} THEN "ENOENT"
    ELSE "none"

\* A join that returns while the function of the target still runs.
thread_exited_or_running(rec) == rec.state \in {"running", "exited"}

\* The function of the thread has returned and nobody has joined it.
thread_exited(rec) == rec.state = "exited"

\* thread_join(t) called by thread c; no other join on t is in progress.
thread_join(c, t) ==
    /\ threads[c].state = "running" /\ threads[c].pc = "run"
    /\ threads[c].fn = "test_thread_joiner" =>
          (t = threads[c].arg /\ tret[c].rc = "none")
    /\ \A d \in ThreadIds : ~(threads[d].pc = "join" /\ tret[d].target = t)
    /\ IF join_error(c, t) # "none"
       THEN /\ tret' = [tret EXCEPT ![c] =
                   [target |-> t, rc |-> join_error(c, t), finished |-> FALSE]]
            /\ UNCHANGED threads
       ELSE /\ tret' = [tret EXCEPT ![c] =
                   [target |-> t, rc |-> "none", finished |-> FALSE]]
            /\ threads' = [threads EXCEPT ![c].pc = "join"]
    /\ UNCHANGED <<done_count, nested_join_result>>
    /\ UNCHANGED <<asyncVars, assocVars, sendVars>>

\* thread_join returns to c: the target has exited and is reaped.
thread_join_return(c) ==
    /\ threads[c].pc = "join"
    /\ LET t == tret[c].target
       IN  /\ thread_exited(threads[t])
           /\ tret' = [tret EXCEPT ![c] =
                  [target |-> t, rc |-> "EOK",
                   finished |-> threads[t].pc = "returned"]]
           /\ threads' = [threads EXCEPT ![c].pc = "run", ![t].state = "joined"]
    /\ UNCHANGED <<done_count, nested_join_result>>
    /\ UNCHANGED <<asyncVars, assocVars, sendVars>>

\* The state of everything but the asynchronous framework before main().
OtherInit == AssocInit /\ SendInit /\ MatchInit /\ ThreadInit

\* The UDP service: users create, enlist, use, delist and delete
\* associations while datagrams arrive for the listed ones (datagrams
\* without a listener are part of SpecDemux).
AssocServiceInit == AsyncInit(TRUE) /\ ~override /\ OtherInit

AssocNext ==
    \/ \E p \in Fibrils, epp \in Idents :
          NAssocs < MaxServed /\ udp_assoc_new(p, epp)
    \/ \E p \in Fibrils, a \in AssocIds : udp_assoc_add(p, a)
    \/ \E p \in Fibrils, a \in AssocIds : udp_assoc_remove(p, a)
    \/ \E p \in Fibrils, a \in AssocIds : udp_assoc_delete(p, a)
    \/ \E p \in Fibrils, repp \in Incoming :
          udp_assoc_find_ref(repp) # 0 /\ udp_assoc_received(p, repp)
    \/ \E p \in Fibrils : udp_assoc_received_done(p)
    \/ \E p \in Fibrils, a \in AssocIds : udp_assoc_recv(p, a)
    \/ \E p \in Fibrils : udp_assoc_recv_resume(p)
    \/ \E p \in Fibrils, a \in AssocIds : udp_assoc_reset(p, a)

SpecAssoc == AssocServiceInit /\ [][AssocNext]_vars

\* The UDP service as a demultiplexer: listeners with the identities of
\* DemuxIdents come and go while datagrams arrive.
DemuxNext ==
    \/ \E p \in Fibrils, epp \in DemuxIdents : udp_assoc_new(p, epp)
    \/ \E p \in Fibrils, a \in AssocIds : udp_assoc_add(p, a)
    \/ \E p \in Fibrils, a \in AssocIds : udp_assoc_remove(p, a)
    \/ \E p \in Fibrils, a \in AssocIds : udp_assoc_delete(p, a)
    \/ \E p \in Fibrils, repp \in Incoming : udp_assoc_received(p, repp)
    \/ \E p \in Fibrils : udp_assoc_received_done(p)
    \/ \E p \in Fibrils : udp_assoc_received_dropped(p)

SpecDemux == AssocServiceInit /\ [][DemuxNext]_vars

\* The receive queue: udp_assoc_queue_msg is exercised as the entry point it
\* is written to be (its one call, at line 356, is under "if (0)"), with
\* datagrams from the remotes of QueueEpps, while users reset their
\* associations and each association has one fibril that receives from it
\* (the fibril of the same number).
QueueNext ==
    \/ \E p \in Fibrils, epp \in Idents :
          NAssocs < MaxServed /\ udp_assoc_new(p, epp)
    \/ \E p \in Fibrils, a \in AssocIds, epp \in QueueEpps :
          \E calloc_ok \in BOOLEAN : udp_assoc_queue_msg(p, a, epp, calloc_ok)
    \/ \E p \in Fibrils, a \in AssocIds : p = a /\ udp_assoc_recv(p, a)
    \/ \E p \in Fibrils : udp_assoc_recv_resume(p)
    \/ \E p \in Fibrils, a \in AssocIds : udp_assoc_reset(p, a)

SpecQueue == AssocServiceInit /\ [][QueueNext]_vars

\* The life of an association: listeners on port 53 are created, listed,
\* delisted and deleted by their users, in any order the interface allows,
\* while messages from one remote are queued on them (udp_assoc_queue_msg
\* exercised as in SpecQueue).
LifeIdents == {id \in Idents : id.local.port = "53"}
LifeEpps == {epp \in QueueEpps : epp.remote.addr = "10.0.0.9"}

LifeNext ==
    \/ \E p \in Fibrils, epp \in LifeIdents : udp_assoc_new(p, epp)
    \/ \E p \in Fibrils, a \in AssocIds : udp_assoc_add(p, a)
    \/ \E p \in Fibrils, a \in AssocIds : udp_assoc_remove(p, a)
    \/ \E p \in Fibrils, a \in AssocIds : udp_assoc_delete(p, a)
    \/ \E p \in Fibrils, a \in AssocIds, epp \in LifeEpps :
          \E calloc_ok \in BOOLEAN : udp_assoc_queue_msg(p, a, epp, calloc_ok)

SpecLife == AssocServiceInit /\ [][LifeNext]_vars

\* Users send on their associations.
SendNext ==
    \/ \E p \in Fibrils, epp \in SendIdents : udp_assoc_new(p, epp)
    \/ \E p \in Fibrils, a \in AssocIds : udp_assoc_delete(p, a)
    \/ \E p \in Fibrils, a \in AssocIds, remote \in SendRemotes :
          \E encoded \in BOOLEAN, transmitted \in BOOLEAN :
             udp_assoc_send(p, a, remote, encoded, transmitted)

SpecSend == AssocServiceInit /\ [][SendNext]_vars

\* udp_ep_match applied to every endpoint and pattern.
MatchServiceInit ==
    /\ AsyncInit(TRUE) /\ ~override
    /\ AssocInit /\ SendInit /\ ThreadInit
    /\ match \in [ep : Endpoints, patt : Endpoints, called : {FALSE},
                  result : {FALSE}]

SpecMatch == MatchServiceInit /\ [][udp_ep_match_call]_vars

\* The thread tests: the test thread creates sleepers and joiners and joins
\* threads, itself and threads it has joined before included.
ThreadNext ==
    \/ thread_create("test_thread_sleeper", 0)
    \/ \E target \in Created : thread_create("test_thread_joiner", target)
    \/ \E t \in ThreadIds : test_thread_sleeper(t)
    \/ \E t \in ThreadIds : test_thread_sleeper_return(t)
    \/ \E t \in ThreadIds : test_thread_joiner(t)
    \/ \E t \in ThreadIds : test_thread_joiner_return(t)
    \/ \E c \in ThreadIds : \E t \in Created \cup {c} : thread_join(c, t)
    \/ \E c \in ThreadIds : thread_join_return(c)

SpecThread == AssocServiceInit /\ [][ThreadNext]_vars

\* A woken fibril runs again.
FairAssoc ==
    SpecAssoc /\ \A p \in Fibrils : WF_vars(udp_assoc_recv_resume(p))

(* ------------------------------------------------------------------ *)
(* The asynchronous framework                                          *)
(* ------------------------------------------------------------------ *)
\* The kernel side of one manager thread.
ManagerNext ==
    \/ async_manager_schedule
    \/ async_manager_idle

\* A server: connections are opened, calls are routed and served.
RouterInit == AsyncInit(TRUE) /\ OtherInit

RouterNext ==
    \/ ManagerNext
    \/ \E h \in PhoneHashes, method \in Methods :
          \E arg3 \in (IF method = "IPC_M_CONNECT_ME_TO" THEN PhoneHashes ELSE {0}) :
             handle_call(h, method, arg3)
    \/ \E f \in ConnIds : connection_thread(f)
    \/ \E f \in ConnIds : handler_return(f)
    \/ \E f \in ConnIds : async_get_call(f)
    \/ \E f \in ConnIds : async_get_call_resume(f)

SpecRouter == RouterInit /\ [][RouterNext]_vars

\* A server with one client phone, whose handler may itself send a request
\* and wait for the answer while more calls of the client arrive.
ClientPhone == CHOOSE h \in PhoneHashes : \A g \in PhoneHashes : h <= g

ServerInit == AsyncInit(TRUE) /\ OtherInit

ServerNext ==
    \/ ManagerNext
    \/ \E method \in {"IPC_M_CONNECT_ME_TO", "OTHER"} :
          handle_call(ClientPhone, method,
                      IF method = "IPC_M_CONNECT_ME_TO" THEN ClientPhone ELSE 0)
    \/ \E f \in ConnIds : connection_thread(f)
    \/ \E f \in ConnIds : handler_return(f)
    \/ \E f \in ConnIds : async_get_call(f)
    \/ \E f \in ConnIds : async_get_call_resume(f)
    \/ \E f \in ConnIds, dataptr \in BOOLEAN, garbage \in BOOLEAN :
          Len(msgs) < MaxFwd /\ async_send_2(f, dataptr, garbage)
    \/ \E f \in ConnIds, m \in 1..MaxMsgs : async_wait_for(f, m)
    \/ \E f \in ConnIds : async_wait_for_resume(f)
    \/ \E m \in 1..MaxMsgs : ipc_wait_cycle_answer(m, Retval(m), Arg1(m))

SpecServer == ServerInit /\ [][ServerNext]_vars

\* A server whose connection handlers each send requests and wait for the
\* answers with a timeout, so that several waits are pending at once.
\* Every client of the server connects once and every handler forwards one
\* request.
TimerPhones == PhoneHashes \cup {1040}

TimersInit == AsyncInit(TRUE) /\ override /\ OtherInit

TimersNext ==
    \/ Tick
    \/ ManagerNext
    \/ ipc_wait_cycle_timeout
    \/ \E m \in 1..MaxMsgs : ipc_wait_cycle_answer(m, Retval(m), Arg1(m))
    \/ \E h \in TimerPhones :
          hash_table_find(h) = 0 /\ handle_call(h, "IPC_M_CONNECT_ME_TO", h)
    \/ \E f \in ConnIds : connection_thread(f)
    \/ \E f \in ConnIds, garbage \in BOOLEAN :
          /\ \A m \in DOMAIN msgs : msgs[m].owner # f
          /\ async_send_2(f, FALSE, garbage)
    \/ \E f \in ConnIds, m \in 1..MaxMsgs, t \in Timeouts :
          async_wait_timeout(f, m, t)
    \/ \E f \in ConnIds : async_wait_timeout_resume(f)

SpecTimers == TimersInit /\ [][TimersNext]_vars

\* A server with one client phone whose handler takes the client's calls with
\* async_get_call and in between forwards a request and waits for its answer
\* with a timeout: a call, an answer and an expiry can each wake it.
HandlerInit == AsyncInit(TRUE) /\ override /\ OtherInit

HandlerNext ==
    \/ Tick
    \/ ManagerNext
    \/ ipc_wait_cycle_timeout
    \/ \E m \in 1..MaxMsgs : ipc_wait_cycle_answer(m, Retval(m), Arg1(m))
    \/ \E method \in {"IPC_M_CONNECT_ME_TO", "OTHER"} :
          handle_call(ClientPhone, method,
                      IF method = "IPC_M_CONNECT_ME_TO" THEN ClientPhone ELSE 0)
    \/ \E f \in ConnIds : connection_thread(f)
    \/ \E f \in ConnIds : async_get_call(f)
    \/ \E f \in ConnIds : async_get_call_resume(f)
    \/ \E f \in ConnIds, garbage \in BOOLEAN :
          Len(msgs) < MaxFwd /\ async_send_2(f, FALSE, garbage)
    \/ \E f \in ConnIds, m \in 1..MaxMsgs, t \in Timeouts :
          async_wait_timeout(f, m, t)
    \/ \E f \in ConnIds : async_wait_timeout_resume(f)

SpecHandler == HandlerInit /\ [][HandlerNext]_vars

\* A client: main() sends requests and waits for their answers.
CorrelatorInit == AsyncInit(FALSE) /\ OtherInit

CorrelatorNext ==
    \/ Tick
    \/ ManagerNext
    \/ ipc_wait_cycle_timeout
    \/ \E m \in 1..MaxMsgs : ipc_wait_cycle_answer(m, Retval(m), Arg1(m))
    \/ \E dataptr \in BOOLEAN, garbage \in BOOLEAN :
          async_send_2(MainFiber, dataptr, garbage)
    \/ \E m \in 1..MaxMsgs : async_wait_for(MainFiber, m)
    \/ async_wait_for_resume(MainFiber)
    \/ \E m \in 1..MaxMsgs, t \in Timeouts : async_wait_timeout(MainFiber, m, t)
    \/ async_wait_timeout_resume(MainFiber)

SpecCorrelator == CorrelatorInit /\ [][CorrelatorNext]_vars

\* The client under a fair scheduler: the manager loop and a resumed
\* pseudo-thread always take their next step.
FairCorrelator ==
    /\ SpecCorrelator
    /\ WF_vars(ManagerNext)
    /\ WF_vars(ipc_wait_cycle_timeout)
    /\ WF_vars(async_wait_for_resume(MainFiber))
    /\ WF_vars(async_wait_timeout_resume(MainFiber))

(* ------------------------------------------------------------------ *)
(* Properties                                                          *)
(* ------------------------------------------------------------------ *)
\* C1: for every connection, the call-ids async_get_call has returned to
\* its pseudo-thread are a prefix of the call-ids route_call appended to it,
\* in the same order: no call is skipped, reordered or returned twice.
C1_FifoPrefix == \A c \in ConnIds : IsPrefix(delivered[c], routed[c])

\* Two calls were routed to one connection and both were returned.
C1_Witness == \E c \in ConnIds : Len(delivered[c]) >= 2

\* C2: when async_wait_for returns, reply_received has run for the message,
\* and the caller gets the retval of that reply and, if it gave a data
\* pointer, the answer of that reply; this holds when the reply was there
\* before the wait and when the pseudo-thread had to park.
C2_WaitForYieldsReply ==
    ret.kind = "wait_for" =>
        /\ ret.rc = "EOK"
        /\ ret.answer # "none"
        /\ ret.retval = ret.answer
        /\ ret.retval = Retval(ret.m)
        /\ ret.dataptr => ret.data = Arg1(ret.m)

\* async_wait_for found done set on entry and returned the reply; the
\* caller had given a data pointer.
C2_Witness ==
    /\ ret.kind = "wait_for"
    /\ ~ret.parked
    /\ ret.dataptr
    /\ ret.retval = "EHANGUP"

\* C3: with several requests outstanding, every wait observes the answer to
\* its own request: the observed (id, answer arg1) pairs are exactly the
\* pairs (id, arg1 the peer replied for id) of the collected requests.
C3_NoCrossTalk ==
    /\ \A p \in observed : p[1] \in DOMAIN msgs /\ p[2] = Arg1(p[1])
    /\ (ret.rc = "EOK" /\ ret.dataptr) => <<ret.m, Arg1(ret.m)>> \in observed

\* The first request was collected after a later one: both were outstanding
\* at once and were not collected in the order they were sent.
C3_Witness == ret.m = 1 /\ ret.rc = "EOK" /\ Cardinality(observed) >= 2

\* C4: async_wait_timeout returns ETIMEOUT exactly when done is not set as
\* the pseudo-thread resumes, and then the message stays allocated as it is;
\* it returns 0 exactly when done is set, and then the message is freed.
C4_TimeoutOrCollect ==
    [][(fpc[MainFiber] = "wait_timeout" /\ fpc'[MainFiber] = "run") =>
         LET m == fwait[MainFiber].m
         IN  /\ ret'.kind = "wait_timeout" /\ ret'.m = m
             /\ ret'.rc = (IF msgs[m].done THEN "EOK" ELSE "ETIMEOUT")
             /\ msgs[m].done => msgs'[m].state = "freed"
             /\ ~msgs[m].done =>
                   /\ msgs'[m].state = "alloc"
                   /\ ~msgs'[m].done
                   /\ msgs'[m].dataptr = msgs[m].dataptr]_vars

\* A wait that had returned ETIMEOUT was followed by a wait on the same id
\* that collected the reply.
C4_Witness == ret.rc = "EOK" /\ ret.timedout

\* C5: async_wait_timeout with a timeout of 0 on a message without a reply
\* always returns to its caller, as long as the program does not crash on
\* another message: the manager wakes the waiter, the call never blocks
\* forever.
C5_ZeroTimeoutReturns ==
    (fpc[MainFiber] = "wait_timeout" /\ fwait[MainFiber].timeout = 0)
        ~> (fpc[MainFiber] = "run" \/ halted.kind = "crash")

\* The connections opened by call c.
ConnOf(c) == {f \in ConnIds : conn[f].state # "none" /\ conn[f].callid = c}

\* How often connection_thread answered call c with EHANGUP.
Flushed(c) ==
    Cardinality({i \in DOMAIN answers[c] :
                   answers[c][i] = [by |-> "connection_thread", retval |-> "EHANGUP"]})

\* The pseudo-thread of connection f has left connection_thread, or has
\* crashed inside it.
TornDown(f) ==
    \/ fpc[f] = "dead"
    \/ halted.kind = "crash" /\ halted.site = "connection_thread" /\ running = f

\* C6: once a connection's pseudo-thread is gone, every call route_call
\* appended to the connection was either returned once by async_get_call or
\* answered once with EHANGUP by connection_thread, never both, never
\* neither.
C6_QueuedCallsResolved ==
    \A f \in ConnIds :
        TornDown(f) =>
            \A c \in Range(routed[f]) : Count(delivered[f], c) + Flushed(c) = 1

\* C7: when a connection's handler has returned and its pseudo-thread has
\* terminated, the connection is no longer in the connection table.
C7_RemovedOnReturn ==
    \A f \in ConnIds : fpc[f] = "dead" => f \notin Range(conn_hash_table)

\* What C8 says of calls that are routed, of IPC_M_INTERRUPT and of the
\* other methods.
DispatchRest(c) ==
    LET call == calls[c]
        unrouted == call.routed = "no"
    IN  /\ call.routed = "yes" =>
              /\ ConnOf(c) = {}
              /\ \A i \in DOMAIN answers[c] : answers[c][i].by = "connection_thread"
        /\ (unrouted /\ call.method = "IPC_M_INTERRUPT") =>
              answers[c] = <<>> /\ ConnOf(c) = {}
        /\ (unrouted /\ call.method = "OTHER") =>
              /\ answers[c] = <<[by |-> "handle_call", retval |-> "EHANGUP"]>>
              /\ ConnOf(c) = {}

\* Call c opened exactly one connection; the default handler answers the
\* opening call with ENOENT when it runs, and nobody else answers it.
Opened(c) ==
    /\ Cardinality(ConnOf(c)) = 1
    /\ ~override =>
          \A f \in ConnOf(c) :
              /\ answers[c] \in
                    {<<>>, <<[by |-> "client_connection", retval |-> "ENOENT"]>>}
              /\ fpc[f] # "start" => answers[c] # <<>>

\* C8 as stated: every unrouted IPC_M_CONNECT_ME_TO opens a connection.
C8_DispatchAlwaysOpens ==
    \A c \in DOMAIN calls :
        /\ DispatchRest(c)
        /\ (calls[c].routed = "no" /\ calls[c].method = "IPC_M_CONNECT_ME_TO")
              => Opened(c)

\* C8, amended: an unrouted IPC_M_INTERRUPT is ignored; an unrouted
\* IPC_M_CONNECT_ME_TO either opens one connection running client_connection,
\* whose default answers the opening call with ENOENT, or, when the
\* connection or its pseudo-thread cannot be allocated, is answered once with
\* ENOMEM and opens nothing; any other unrouted method is answered once with
\* EHANGUP; handle_call neither answers a routed call nor opens a connection
\* for it.
C8_Dispatch ==
    \A c \in DOMAIN calls :
        /\ DispatchRest(c)
        /\ (calls[c].routed = "no" /\ calls[c].method = "IPC_M_CONNECT_ME_TO") =>
              \/ Opened(c)
              \/ /\ ConnOf(c) = {}
                 /\ answers[c] =
                      <<[by |-> "async_new_connection", retval |-> "ENOMEM"]>>

\* One opening call failed with ENOMEM, another opened a connection whose
\* default handler answered ENOENT, and a third call was routed to no
\* connection and answered EHANGUP.
C8_Witness ==
    /\ \E c \in DOMAIN calls :
          answers[c] = <<[by |-> "async_new_connection", retval |-> "ENOMEM"]>>
    /\ \E c \in DOMAIN calls :
          answers[c] = <<[by |-> "client_connection", retval |-> "ENOENT"]>>
    /\ \E c \in DOMAIN calls :
          answers[c] = <<[by |-> "handle_call", retval |-> "EHANGUP"]>>

\* C9: an association is freed exactly when its refcnt has dropped to zero,
\* and no operation reads or writes an association after it was freed.
C9_FreedAtZeroUntouched ==
    /\ \A a \in AssocIds :
          assoc[a].state # "none" => (assoc[a].state = "freed" <=> assoc[a].refcnt = 0)
    /\ uaf = {}

WildcardLocal == [addr |-> inet_addr_any, port |-> "53"]
BoundLocal == [addr |-> "10.0.0.1", port |-> "53"]

\* The listed associations with the given local endpoint.
Listed(local) == {a \in Range(assoc_list) : assoc[a].ident.local = local}

\* Position of a listed association in assoc_list.
Pos(a) == CHOOSE i \in 1..Len(assoc_list) : assoc_list[i] = a

\* The listed associations bound to port 53 whose local endpoint admits the
\* datagram's.
Candidates(repp) ==
    Listed(WildcardLocal) \cup
        (IF repp.local = BoundLocal THEN Listed(BoundLocal) ELSE {})

\* C11 as the specification states it: with a wildcard listener A and a
\* listener B bound to 10.0.0.1:53 both listed, in either order, a datagram
\* to 10.0.0.1:53 is delivered to B and one to 10.0.0.2:53 to A.
C11_BoundListenerWins ==
    [][\A p \in Fibrils, repp \in Incoming :
          (/\ udp_assoc_received(p, repp)
           /\ Listed(WildcardLocal) # {}
           /\ Listed(BoundLocal) # {})
          => /\ apc'[p] = "recv_msg"
             /\ assoc[aarg'[p]].ident.local =
                   (IF repp.local = BoundLocal THEN BoundLocal
                    ELSE WildcardLocal)]_vars

\* C11, amended: a datagram is delivered to the association listed first
\* among those bound to port 53 that admit it (to B only when B was added
\* before A, to A otherwise); a datagram to 10.0.0.2:53 is delivered to A;
\* an association whose local port is ANY is never chosen, and without a
\* candidate nothing is delivered.
C11_FirstListedWins ==
    [][\A p \in Fibrils, repp \in Incoming :
          udp_assoc_received(p, repp)
          => IF Candidates(repp) = {}
             THEN apc'[p] # "recv_msg"
             ELSE /\ apc'[p] = "recv_msg"
                  /\ aarg'[p] \in Candidates(repp)
                  /\ \A b \in Candidates(repp) : Pos(aarg'[p]) <= Pos(b)]_vars

\* A and B are both listed, B before every A, and a fibril is delivering a
\* datagram to B.
C11_Witness ==
    /\ Listed(WildcardLocal) # {} /\ Listed(BoundLocal) # {}
    /\ \E p \in Fibrils :
         /\ apc[p] = "recv_msg"
         /\ aarg[p] \in Listed(BoundLocal)
         /\ \A a \in Listed(WildcardLocal) : Pos(aarg[p]) < Pos(a)

(* ------------------------------------------------------------------ *)
(* Endpoint matching and sending                                       *)
(* ------------------------------------------------------------------ *)
\* C12: udp_ep_match(e, p) is true exactly when every field of p is the
\* wildcard or equal to the field of e: a wildcard in p never rejects, a
\* concrete field of p that differs from e always does, p = e matches, and a
\* wildcard in e does not match a concrete p.
C12_MatchIffPatternAdmits ==
    match.called =>
        (match.result <=>
            /\ match.patt.addr = inet_addr_any \/ match.patt.addr = match.ep.addr
            /\ match.patt.port = inet_port_any \/ match.patt.port = match.ep.port)

\* udp_ep_match has rejected an endpoint with the wildcard address against
\* a pattern with a concrete address and the same port.
C12_Witness ==
    /\ match.called /\ ~match.result
    /\ match.ep.addr = inet_addr_any /\ match.patt.addr # inet_addr_any
    /\ match.ep.port = match.patt.port

\* C13: udp_assoc_send whose effective remote endpoint has the address ANY
\* or the port ANY, or whose remote and local address versions differ,
\* returns EINVAL and has neither encoded nor transmitted a PDU.
C13_SendRejectsUnsetRemote ==
    LET eff == IF sendret.remote = NullEp THEN sendret.ident.remote
               ELSE sendret.remote
    IN  (/\ sendret.called
         /\ \/ eff.addr = inet_addr_any
            \/ eff.port = inet_port_any
            \/ AddrVersion(eff.addr) # AddrVersion(sendret.ident.local.addr))
        => (sendret.rc = "EINVAL" /\ ~sendret.encode /\ ~sendret.transmit)

\* A send on a connected association whose override has the port ANY has
\* returned EINVAL.
C13_Witness ==
    /\ sendret.called /\ sendret.rc = "EINVAL"
    /\ sendret.remote # NullEp /\ sendret.remote.port = inet_port_any
    /\ sendret.remote.addr # inet_addr_any
    /\ sendret.ident.remote.port # inet_port_any

(* ------------------------------------------------------------------ *)
(* Outstanding messages                                                *)
(* ------------------------------------------------------------------ *)
\* C14: for every outstanding message, done implies that retval holds the
\* return value of the reply and, when the sender gave a data pointer, that
\* the answer has been copied there.
C14_DoneImpliesReplyStored ==
    \A m \in DOMAIN msgs :
        (msgs[m].state = "alloc" /\ msgs[m].done)
        => /\ msgs[m].retval = Retval(m)
           /\ msgs[m].dataptr => msgs[m].data = Arg1(m)

\* The reply to a request that was sent with a data pointer has arrived and
\* the request has not been collected yet.
C14_Witness ==
    \E m \in DOMAIN msgs :
        /\ msgs[m].state = "alloc" /\ msgs[m].done /\ msgs[m].dataptr
        /\ msgs[m].answer = Retval(m)

(* ------------------------------------------------------------------ *)
(* Timeout list                                                        *)
(* ------------------------------------------------------------------ *)
\* A deadline in microseconds.
Deadline(tv) == tv.tv_sec * USEC_PER_SEC + tv.tv_usec

\* C15: whenever the async futex is free, the timeout list is sorted by
\* non-decreasing deadline and holds each message at most once.
C15_TimeoutListSorted ==
    async_futex = 1 =>
        /\ \A i, j \in 1..Len(timeout_list) :
              i < j => /\ timeout_list[i] # timeout_list[j]
                       /\ Deadline(msgs[timeout_list[i]].expires)
                            <= Deadline(msgs[timeout_list[j]].expires)

\* Two waits are pending with different deadlines, and the one that was
\* started later has the earlier deadline.
C15_Witness ==
    /\ async_futex = 1
    /\ Len(timeout_list) = 2
    /\ timeout_list[1] > timeout_list[2]
    /\ Deadline(msgs[timeout_list[1]].expires)
         < Deadline(msgs[timeout_list[2]].expires)

(* ------------------------------------------------------------------ *)
(* Allocation failure                                                  *)
(* ------------------------------------------------------------------ *)
\* C16: a failed allocation is handled in async_new_connection, route_call
\* and async_send_2: none of them goes down on the null result.
C16_AllocationFailureHandled ==
    ~(/\ halted.kind = "crash"
      /\ halted.site \in {"async_new_connection", "route_call", "async_send_2"})

(* ------------------------------------------------------------------ *)
(* Abandoned messages                                                  *)
(* ------------------------------------------------------------------ *)
\* C17: a message whose async_wait_timeout returned ETIMEOUT and that nobody
\* waits for is reclaimed by reply_received when its late reply arrives.
C17_LateReplyReclaims ==
    [][\A m \in DOMAIN msgs :
          (/\ msgs[m].state = "alloc" /\ msgs[m].timedout
           /\ ~(/\ fpc[msgs[m].owner] \in {"wait_for", "wait_timeout"}
                /\ fwait[msgs[m].owner].m = m)
           /\ ~msgs[m].done /\ msgs'[m].done)
          => msgs'[m].state = "freed"]_vars

(* ------------------------------------------------------------------ *)
(* thread_join                                                         *)
(* ------------------------------------------------------------------ *)
\* C18: a thread_join that has returned EOK returned after the function of
\* its target had finished, whoever the joiner is: the target has been
\* reaped, and every sleeper that has been joined has counted itself in
\* done_count before.
C18_JoinReturnsAfterExit ==
    /\ \A c \in ThreadIds :
          tret[c].rc = "EOK"
          => /\ tret[c].finished
             /\ threads[tret[c].target].state = "joined"
    /\ Cardinality({t \in ThreadIds : /\ threads[t].fn = "test_thread_sleeper"
                                      /\ threads[t].state = "joined"})
         <= done_count
    /\ nested_join_result = "EOK" => done_count >= 1

\* thread_join_nested has passed: a joiner thread has joined the sleeper
\* with EOK, and the test thread has joined the joiner with EOK.
C18_Witness ==
    /\ nested_join_result = "EOK"
    /\ tret[MainThread].rc = "EOK"
    /\ threads[tret[MainThread].target].fn = "test_thread_joiner"
    /\ threads[threads[tret[MainThread].target].arg].fn = "test_thread_sleeper"

\* C19: thread_join on a thread that has been joined returns ENOENT at once:
\* the caller is not blocked, no thread changes and nothing runs again.
C19_SecondJoinENOENT ==
    [][\A c \in ThreadIds, t \in ThreadIds :
          (thread_join(c, t) /\ threads[t].state = "joined")
          => /\ tret'[c].rc = "ENOENT"
             /\ threads' = threads
             /\ done_count' = done_count]_vars

\* The test thread has joined a sleeper a second time and got ENOENT.
C19_Witness ==
    /\ tret[MainThread].rc = "ENOENT"
    /\ threads[tret[MainThread].target].state = "joined"
    /\ threads[tret[MainThread].target].fn = "test_thread_sleeper"
    /\ threads[MainThread].pc = "run"
    /\ done_count = 1

\* C20: thread_join with the caller's own thread id returns EINVAL at once;
\* the caller is not blocked.
C20_SelfJoinEINVAL ==
    [][\A c \in ThreadIds :
          thread_join(c, c)
          => /\ tret'[c].rc = "EINVAL"
             /\ threads' = threads]_vars

\* The test thread has joined itself, got EINVAL and runs on.
C20_Witness ==
    /\ tret[MainThread].target = MainThread
    /\ tret[MainThread].rc = "EINVAL"
    /\ threads[MainThread].pc = "run"

(* ------------------------------------------------------------------ *)
(* The async futex                                                     *)
(* ------------------------------------------------------------------ *)
\* C21: the manager never takes the async futex while it holds it: no run
\* of the manager loop ends blocked in the futex_down of the expiry sweep.
C21_ManagerNeverSelfDeadlocks ==
    ~(halted.kind = "deadlock" /\ halted.site = "handle_expired_timeouts")

\* C22: the async futex is a mutex on every path: its counter is 0 (held)
\* or 1 (free) in every state, never above 1.
C22_FutexIsMutex ==
    async_futex \in {0, 1}

\* C23: ownership of the async lock follows every yield: a pseudo-thread that
\* parked in async_get_call, async_wait_for or async_wait_timeout holds the
\* lock again when it resumes (the counter is 0 while it unlinks the head of
\* its FIFO or collects its reply), and the manager holds the lock while it
\* runs its loop outside the kernel wait.
C23_LockFollowsYield ==
    [][/\ \A f \in ConnIds : async_get_call_resume(f) => async_futex = 0
       /\ \A f \in UserFibers :
            async_wait_for_resume(f) \/ async_wait_timeout_resume(f)
               => async_futex = 0
       /\ async_manager_schedule => async_futex = 0]_vars

(* ------------------------------------------------------------------ *)
(* Connections                                                         *)
(* ------------------------------------------------------------------ *)
\* C24: connection_thread does not touch its connection after the connection
\* was freed by its removal from the table: the drain of msg_queue never
\* reads freed memory, so no run faults there.
C24_DrainBeforeFree ==
    ~(halted.kind = "crash" /\ halted.site = "connection_thread")

\* C25: whenever a pseudo-thread that parked in async_get_call on an empty
\* FIFO is made ready or resumed, its FIFO holds at least one call: only
\* route_call wakes it, in the step that appends the call.
C25_ResumedWithCall ==
    \A f \in ConnIds :
        (fpc[f] = "get_call" /\ (running = f \/ f \in Range(ready)))
            => conn[f].msg_queue # <<>>

\* A handler parked in async_get_call has been given the processor again,
\* after a request of its own was answered or timed out.
C25_Witness ==
    \E f \in ConnIds :
        /\ fpc[f] = "get_call"
        /\ running = f
        /\ conn[f].msg_queue # <<>>
        /\ \E m \in DOMAIN msgs : msgs[m].owner = f

(* ------------------------------------------------------------------ *)
(* Timeouts                                                            *)
(* ------------------------------------------------------------------ *)
\* C26: whenever the async futex is free, every allocated request has
\* has_timeout set exactly when it is linked in timeout_list, from its
\* allocation by async_send_2 on; so reply_received and the sweep never
\* unlink a request that is not in the list.
C26_HasTimeoutIffLinked ==
    /\ (Live /\ async_futex >= 1) =>
          \A m \in DOMAIN msgs :
              msgs[m].state = "alloc"
                  => (msgs[m].has_timeout <=> m \in Range(timeout_list))
    /\ ~(halted.kind = "crash" /\ halted.site = "reply_received")

\* C27: a pass of the manager loop that finds nothing ready sweeps and loops
\* when the head of the timeout list has a deadline at or before the clock
\* (equality included), waits in the kernel for exactly deadline - now, a
\* positive time, when the head's deadline is ahead, and waits without a
\* timeout when the list is empty.
C27_ManagerWait ==
    [][async_manager_idle =>
         IF timeout_list = <<>>
         THEN mgr_pc' = "wait" /\ ~mgr_wait'.timed
         ELSE LET deadline == Deadline(msgs[Head(timeout_list)].expires)
              IN  IF deadline <= NowUsec
                  THEN /\ mgr_pc' = "loop"
                       /\ Live'
                       /\ Head(timeout_list) \notin Range(timeout_list')
                  ELSE /\ mgr_pc' = "wait"
                       /\ mgr_wait'.timed
                       /\ mgr_wait'.usec = deadline - NowUsec
                       /\ mgr_wait'.usec > 0]_vars

\* handle_expired_timeouts has run to its end in this step, called from
\* line 433 after the kernel wait timed out or from line 422.
SweepRan ==
    /\ ipc_wait_cycle_timeout \/ (async_manager_idle /\ mgr_pc' = "loop")
    /\ Live'

\* C28: when handle_expired_timeouts has run at clock value now, the timeout
\* list holds exactly its former entries with deadline > now, unchanged and
\* in their order; every removed entry has has_timeout cleared and active
\* set, and its pseudo-thread was appended to the ready list once if and
\* only if the entry was inactive.
C28_SweepPostcondition ==
    [][SweepRan =>
         LET late(m) == Deadline(msgs[m].expires) > NowUsec
             gone == {m \in Range(timeout_list) : ~late(m)}
         IN  /\ timeout_list' = SelectSeq(timeout_list, late)
             /\ \A m \in DOMAIN msgs : m \notin gone => msgs'[m] = msgs[m]
             /\ \A m \in gone : ~msgs'[m].has_timeout /\ msgs'[m].active
             /\ IsPrefix(ready, ready')
             /\ \A f \in UserFibers :
                   Count(ready', f) - Count(ready, f) =
                       Cardinality({m \in gone :
                                       ~msgs[m].active /\ msgs[m].ptid = f})]_vars

\* A sweep has removed an expired request and woken its waiter while a
\* request with a later deadline stays in the list.
C28_Witness ==
    /\ mgr_pc = "loop"
    /\ timeout_list # <<>>
    /\ \E m \in DOMAIN msgs :
          /\ msgs[m].state = "alloc"
          /\ ~msgs[m].done
          /\ ~msgs[m].has_timeout
          /\ msgs[m].active
          /\ msgs[m].ptid \in Range(ready)
          /\ Deadline(msgs[m].expires) <= NowUsec

(* ------------------------------------------------------------------ *)
(* Routing and opening                                                 *)
(* ------------------------------------------------------------------ *)
\* C29: route_call for a call whose in_phone_hash is in the connection table
\* appends the call at the tail of that connection's FIFO, sets active, marks
\* the connection's pseudo-thread ready if and only if the connection was
\* inactive, and returns true, leaving the table and the other connections
\* alone; for a hash that is not in the table it returns false and leaves
\* the table, every FIFO, every active flag and the ready list unchanged.
C29_RouteCallFrame ==
    [][\A h \in PhoneHashes, method \in Methods, arg3 \in PhoneHashes \cup {0} :
          handle_call(h, method, arg3) =>
             LET hlp == hash_table_find(h)
                 callid == Len(calls) + 1
             IN  IF hlp # 0
                 THEN /\ calls'[callid].routed = "yes"
                      /\ conn' = [conn EXCEPT
                                    ![hlp].msg_queue = Append(@, callid),
                                    ![hlp].active = TRUE]
                      /\ ready' = IF conn[hlp].active THEN ready
                                  ELSE Append(ready, hlp)
                      /\ conn_hash_table' = conn_hash_table
                 ELSE /\ calls'[callid].routed = "no"
                      /\ method # "IPC_M_CONNECT_ME_TO" =>
                            /\ conn' = conn
                            /\ ready' = ready
                            /\ conn_hash_table' = conn_hash_table]_vars

\* C30: async_new_connection either fails, and then answers the opening
\* call with ENOMEM exactly once, creates no pseudo-thread and leaves the
\* connection table, the connections and the ready list as they were; or
\* succeeds, and then leaves the call unanswered, inserts exactly one new
\* connection keyed by arg3 of the opening call, with active set and an empty
\* FIFO, and appends its new pseudo-thread to the ready list exactly once.
C30_NewConnection ==
    [][\A h \in PhoneHashes, arg3 \in PhoneHashes :
          (handle_call(h, "IPC_M_CONNECT_ME_TO", arg3) /\ hash_table_find(h) = 0)
            => LET callid == Len(calls) + 1
                   enomem == [by |-> "async_new_connection", retval |-> "ENOMEM"]
               IN  \/ /\ answers'[callid] = <<enomem>>
                      /\ conn_hash_table' = conn_hash_table
                      /\ conn' = conn
                      /\ fpc' = fpc
                      /\ ready' = ready
                   \/ /\ answers'[callid] = <<>>
                      /\ \E c \in ConnIds :
                            /\ conn[c].state = "none"
                            /\ fpc[c] = "none"
                            /\ c \notin Range(ready)
                            /\ Count(conn_hash_table', c) = 1
                            /\ RemoveFirst(conn_hash_table', c) = conn_hash_table
                            /\ conn' = [conn EXCEPT ![c] =
                                          [state |-> "alloc", in_phone_hash |-> arg3,
                                           msg_queue |-> <<>>, active |-> TRUE,
                                           callid |-> callid]]
                            /\ fpc' = [fpc EXCEPT ![c] = "start"]
                            /\ ready' = Append(ready, c)]_vars

\* Both outcomes have happened: one opening call was answered ENOMEM and left
\* no trace, another opened a connection whose key is its arg3 and not the
\* phone it arrived on.
C30_Witness ==
    /\ \E k \in DOMAIN calls :
          /\ calls[k].method = "IPC_M_CONNECT_ME_TO"
          /\ answers[k] = <<[by |-> "async_new_connection", retval |-> "ENOMEM"]>>
          /\ \A c \in ConnIds : conn[c].callid # k
    /\ \E c \in ConnIds :
          /\ conn[c].state = "alloc"
          /\ c \in Range(conn_hash_table)
          /\ c \in Range(ready)
          /\ conn[c].in_phone_hash = calls[conn[c].callid].arg3
          /\ conn[c].in_phone_hash # calls[conn[c].callid].in_phone_hash

\* C31: the connection table holds at most one connection per key, whatever
\* calls arrive.
C31_UniqueKeys ==
    \A i, j \in 1..Len(conn_hash_table) :
        conn[conn_hash_table[i]].in_phone_hash
            = conn[conn_hash_table[j]].in_phone_hash => i = j

(* ------------------------------------------------------------------ *)
(* The ready list                                                      *)
(* ------------------------------------------------------------------ *)
\* A pseudo-thread that has yielded to the manager and waits to be resumed.
Parked(f) == fpc[f] \in {"start", "get_call", "wait_for", "wait_timeout"}

\* C32: no pseudo-thread is marked ready while it is already ready or
\* running: every entry of the ready list is a parked pseudo-thread that is
\* not running, and appears there once.
C32_ReadyOnce ==
    \A i \in 1..Len(ready) :
        /\ ready[i] \in UserFibers
        /\ Parked(ready[i])
        /\ running # ready[i]
        /\ \A j \in 1..Len(ready) : ready[j] = ready[i] => j = i

\* A handler that waits for the answer to its request was made ready once,
\* by the answer or by the expiry, while a call routed to its connection in
\* the meantime sits in its FIFO.
C32_Witness ==
    \E f \in ConnIds :
        /\ fpc[f] = "wait_timeout"
        /\ conn[f].msg_queue # <<>>
        /\ Count(ready, f) = 1

(* ------------------------------------------------------------------ *)
(* Expiry                                                              *)
(* ------------------------------------------------------------------ *)
\* C33: async_wait_timeout never returns ETIMEOUT before its deadline: the
\* deadline it records when it parks is the time of the call plus the
\* timeout, and when it returns ETIMEOUT the clock has reached that deadline
\* and the waiter was woken by the expiry sweep (the request is unanswered,
\* unlinked, has_timeout cleared and active set).
C33_NoEarlyTimeout ==
    [][\A f \in UserFibers :
          /\ \A m \in DOMAIN msgs, t \in Timeouts :
                (async_wait_timeout(f, m, t) /\ fpc'[f] = "wait_timeout")
                    => Deadline(msgs'[m].expires) = NowUsec + t
          /\ (async_wait_timeout_resume(f) /\ ret'.rc = "ETIMEOUT")
                => LET m == fwait[f].m
                   IN  /\ NowUsec >= Deadline(msgs[m].expires)
                       /\ ~msgs[m].done
                       /\ ~msgs[m].has_timeout
                       /\ msgs[m].active
                       /\ m \notin Range(timeout_list)]_vars

\* A wait with a positive timeout has returned ETIMEOUT while another request
\* with a later deadline is still in the timeout list.
C33_Witness ==
    /\ ret.kind = "wait_timeout"
    /\ ret.rc = "ETIMEOUT"
    /\ Deadline(msgs[ret.m].expires) > 0
    /\ timeout_list # <<>>

(* ------------------------------------------------------------------ *)
(* struct timeval arithmetic                                           *)
(* ------------------------------------------------------------------ *)
\* C34: tv_add keeps a timeval normalized: the deadline async_wait_timeout
\* computes with it from the (normalized) clock and a non-negative timeout
\* has 0 <= tv_usec < 1000000 and stands for exactly clock + timeout.
C34_TvAddNormalized ==
    [][\A f \in UserFibers, m \in DOMAIN msgs, t \in Timeouts :
          (async_wait_timeout(f, m, t) /\ fpc'[f] = "wait_timeout")
              => LET r == tv_add(gettimeofday, t)
                 IN  /\ msgs'[m].expires = r
                     /\ r.tv_usec >= 0
                     /\ r.tv_usec < USEC_PER_SEC
                     /\ Deadline(r) = NowUsec + t]_vars

(* ------------------------------------------------------------------ *)
(* Association references                                              *)
(* ------------------------------------------------------------------ *)
\* The fibrils that hold the reference udp_assoc_find_ref gave them on a.
Delivering(a) == {p \in Fibrils : apc[p] = "recv_msg" /\ aarg[p] = a}

\* C35: every association linked in assoc_list has refcnt >= 1 and is not
\* freed, and so has every association a fibril got from udp_assoc_find_ref
\* and has not released yet, whatever udp_assoc_remove and udp_assoc_delete
\* did in between: the count is the user's reference, the list's reference
\* and one per lookup in progress.
C35_ListedAndFoundAreLive ==
    /\ \A a \in Range(assoc_list) :
          assoc[a].state = "alloc" /\ assoc[a].refcnt >= 1
    /\ \A a \in AssocIds :
          Delivering(a) # {} => assoc[a].state = "alloc" /\ assoc[a].refcnt >= 1
    /\ \A a \in AssocIds :
          assoc[a].state # "none" =>
              assoc[a].refcnt = (IF assoc[a].user THEN 1 ELSE 0)
                                + Count(assoc_list, a)
                                + Cardinality(Delivering(a))

\* A fibril still holds the association its lookup returned after the
\* association was delisted and deleted by its user.
C35_Witness ==
    \E a \in AssocIds :
        /\ Delivering(a) # {}
        /\ a \notin Range(assoc_list)
        /\ ~assoc[a].user
        /\ assoc[a].state = "alloc"
        /\ assoc[a].refcnt = Cardinality(Delivering(a))

(* ------------------------------------------------------------------ *)
(* Lookup and delivery                                                 *)
(* ------------------------------------------------------------------ *)
\* The pattern patt admits the endpoint ep: each field of patt is the
\* wildcard or equal to the field of ep.
Admits(patt, ep) ==
    /\ patt.addr = inet_addr_any \/ patt.addr = ep.addr
    /\ patt.port = inet_port_any \/ patt.port = ep.port

\* Positions in assoc_list of the associations a datagram can go to: bound
\* to a local port, with an ident that admits the datagram's endpoint pair.
Eligible(repp) ==
    {i \in 1..Len(assoc_list) :
        LET id == assoc[assoc_list[i]].ident
        IN  /\ id.local.port # inet_port_any
            /\ Admits(id.local, repp.local)
            /\ Admits(id.remote, repp.remote)}

\* C36: udp_assoc_find_ref returns the first association in list order whose
\* local port is not ANY and whose ident, taken as the pattern, admits the
\* incoming endpoint pair, and raises the refcnt of that association by one
\* and of no other; when there is none it returns nothing and no refcnt
\* changes.
C36_FindRefFirstMatch ==
    [][\A p \in Fibrils, repp \in Incoming :
          udp_assoc_received(p, repp)
          => IF Eligible(repp) = {}
             THEN apc'[p] = "msg_delete" /\ assoc' = assoc
             ELSE LET first == CHOOSE i \in Eligible(repp) :
                                  \A j \in Eligible(repp) : i <= j
                      a == assoc_list[first]
                  IN  /\ apc'[p] = "recv_msg"
                      /\ aarg'[p] = a
                      /\ assoc' = [assoc EXCEPT ![a].refcnt = @ + 1]]_vars

\* A fibril holds the association its lookup returned, which is listed after
\* an unbound association that the walk skipped.
C36_Witness ==
    \E p \in Fibrils :
        /\ apc[p] = "recv_msg"
        /\ aarg[p] \in Range(assoc_list)
        /\ assoc[aarg[p]].refcnt >= 2
        /\ \E u \in Range(assoc_list) :
              /\ assoc[u].ident.local.port = inet_port_any
              /\ Pos(u) < Pos(aarg[p])

\* The association after one reference on it was given up: the count is one
\* lower, and the structure is freed when that was the last reference.
Released(rec) ==
    IF rec.refcnt = 1
    THEN [rec EXCEPT !.refcnt = 0, !.state = "freed", !.rcv_queue = <<>>]
    ELSE [rec EXCEPT !.refcnt = @ - 1]

Oldest(q) ==
    CHOOSE e \in Range(q) : \A f \in Range(q) : e.msg <= f.msg

\* Fibril p tests the loop of udp_assoc_recv on association a in this step:
\* on the call, or when fibril_condvar_wait has returned.
RecvTests(p, a) ==
    \/ udp_assoc_recv(p, a)
    \/ udp_assoc_recv_resume(p) /\ aarg[p] = a

MsgsOf(q) == [i \in 1..Len(q) |-> q[i].msg]

\* Association a is freed in this step.
FreedNow(a) == assoc[a].state = "alloc" /\ assoc'[a].state = "freed"

\* With the structures as, the list al and the deleted messages dm: an
\* association is allocated exactly as long as its user or the list holds
\* it, a freed one is held by nobody, and no message was deleted twice.
LifeOK(as, al, dm) ==
    /\ \A a \in AssocIds :
          /\ as[a].state = "alloc"
                => /\ as[a].user \/ a \in Range(al)
                   /\ as[a].refcnt = (IF as[a].user THEN 1 ELSE 0) + Count(al, a)
          /\ as[a].state = "freed"
                => ~as[a].user /\ a \notin Range(al) /\ as[a].refcnt = 0
    /\ \A i, j \in 1..Len(dm) : dm[i] = dm[j] => i = j

\* C39: udp_assoc_new gives an association with refcnt 1 that is not in the
\* list, not deleted, not reset and has an empty receive queue;
\* udp_assoc_add raises refcnt by one and links it; udp_assoc_remove
\* unlinks it and lowers refcnt by one. After new and add, remove and
\* delete in either order free the association exactly once: it is freed
\* by the step that gives up the last reference and is never touched
\* again; that step empties the receive queue and calls udp_msg_delete on
\* the message of every entry, no message being deleted twice and none by
\* any other step.
C39_Lifecycle ==
    [][/\ \A a \in AssocIds :
             /\ (assoc[a].state = "none" /\ assoc'[a].state # "none")
                   => /\ assoc'[a].state = "alloc"
                      /\ assoc'[a].refcnt = 1
                      /\ ~assoc'[a].deleted /\ ~assoc'[a].reset
                      /\ assoc'[a].rcv_queue = <<>>
                      /\ a \notin Range(assoc_list')
             /\ (\E p \in Fibrils : udp_assoc_add(p, a))
                   => /\ assoc'[a].refcnt = assoc[a].refcnt + 1
                      /\ a \notin Range(assoc_list)
                      /\ Count(assoc_list', a) = 1
             /\ (\E p \in Fibrils : udp_assoc_remove(p, a))
                   => /\ assoc'[a].refcnt = assoc[a].refcnt - 1
                      /\ a \in Range(assoc_list)
                      /\ a \notin Range(assoc_list')
             /\ assoc[a].state = "freed" => assoc'[a] = assoc[a]
             /\ FreedNow(a)
                   => /\ assoc[a].refcnt = 1
                      /\ assoc'[a].rcv_queue = <<>>
                      /\ deleted_msgs' =
                            deleted_msgs \o MsgsOf(assoc[a].rcv_queue)
       /\ (\A a \in AssocIds : ~FreedNow(a)) => deleted_msgs' = deleted_msgs
       /\ LifeOK(assoc, assoc_list, deleted_msgs)
       /\ LifeOK(assoc', assoc_list', deleted_msgs')]_vars

\* Two associations were created, listed and freed with a message queued
\* on each: one was delisted before it was deleted (udp_assoc_delete freed
\* it), the other deleted before it was delisted (udp_assoc_remove freed
\* it); both messages were deleted.
C39_Witness ==
    \E a, b \in AssocIds :
        /\ a # b
        /\ assoc[a].state = "freed" /\ assoc[b].state = "freed"
        /\ \E u \in uaf : u.op = "udp_assoc_delete" /\ u.a = a
        /\ \A u \in uaf : u.a # b
        /\ Len(deleted_msgs) = 2


(* ------------------------------------------------------------------ *)
(* Sending leaves the association alone                                *)
(* ------------------------------------------------------------------ *)
\* C40: udp_assoc_send never modifies the association: an override of the
\* remote endpoint goes into the local copy of ident only, and ident,
\* refcnt, receive queue, flags and the list are the same after the call
\* on every outcome. When udp_pdu_encode fails the call returns ENOMEM
\* without calling udp_transmit_pdu (and there is no PDU to delete); when
\* udp_transmit_pdu is called the PDU is deleted exactly once, and the call
\* returns EOK if the transmission succeeded and EIO if it failed.
C40_SendFrame ==
    [][sendret' # sendret =>
          LET remote == sendret'.remote
          IN  \A a \in AssocIds, encoded \in BOOLEAN, transmitted \in BOOLEAN :
                 (/\ assoc[a].state = "alloc"
                  /\ assoc[a].ident = sendret'.ident
                  /\ \E p \in Fibrils :
                        udp_assoc_send(p, a, remote, encoded, transmitted))
                 => /\ assoc' = assoc
                    /\ assoc_list' = assoc_list
                    /\ sendret'.epp.local = assoc[a].ident.local
                    /\ sendret'.epp.remote =
                          (IF remote = NullEp THEN assoc[a].ident.remote
                           ELSE remote)
                    /\ IF sendret'.rc = "EINVAL"
                       THEN /\ ~sendret'.encode /\ ~sendret'.transmit
                            /\ sendret'.pdu_deleted = 0
                       ELSE IF ~encoded
                       THEN /\ sendret'.rc = "ENOMEM"
                            /\ sendret'.encode /\ ~sendret'.transmit
                            /\ sendret'.pdu_deleted = 0
                       ELSE /\ sendret'.encode /\ sendret'.transmit
                            /\ sendret'.pdu_deleted = 1
                            /\ sendret'.rc =
                                  (IF transmitted THEN "EOK" ELSE "EIO")]_vars

\* A datagram was sent to an overriding remote endpoint on an association
\* connected to another one: the transmission failed, the PDU was deleted
\* once, and the association still has its own remote endpoint.
C40_Witness ==
    /\ sendret.called /\ sendret.rc = "EIO"
    /\ sendret.transmit /\ sendret.pdu_deleted = 1
    /\ sendret.remote # NullEp
    /\ sendret.epp.remote = sendret.remote
    /\ sendret.ident.remote # sendret.remote
    /\ \E a \in AssocIds :
          /\ assoc[a].state = "alloc"
          /\ assoc[a].ident = sendret.ident
          /\ assoc[a].refcnt = 1

====
